---- MODULE Spec2Model ----
(***************************************************************************)
(* A model of terminalcp's Claude Code status detection                    *)
(* (src/terminalcp/claude_status.py).                                      *)
(*                                                                         *)
(* Text is modelled character by character: a string is a sequence of      *)
(* characters, an ASCII character is the one-character string itself and a *)
(* non-ASCII character is named by its code point ("U276F" is the prompt   *)
(* caret).  A screen is the flat string handed to detect_claude_state,     *)
(* with "\n" between its lines.                                            *)
(***************************************************************************)
EXTENDS Integers, Sequences, FiniteSets, TLC

VARIABLES
  output,          \* the rendered screen text
  verdict,         \* the (state, detail) of detect_claude_state
  mode,            \* the result of detect_claude_mode
  match,           \* the result of TerminalDetector.detect_interactive
  idle_prompt,     \* the result of TerminalDetector.detect_idle_prompt
  done,            \* the detector operations applied to the present screen
  vocabulary,      \* the module-level vocabulary of claude_status.py
  calls,           \* per thread, the classifier call it is in
  memo,            \* the (function, text, result) of the calls returned, in order
  raw,             \* the text handed to the renderer
  session_states,  \* StatusDetector._session_states
  live_outputs,    \* StatusDetector._live_outputs
  pyte_renderers,  \* the keys of StatusDetector._pyte_renderers
  raised,          \* the error raised by the last _poll_session
  rendered,        \* per session, the rendered outputs of its successful polls
  response,        \* the result of the last to_status_response
  in_flight,       \* the _poll_session calls suspended at the stream request
  overlapped       \* the sessions a poll of which resumed after a later one

callVars == <<vocabulary, calls, memo>>

detectorVars == <<mode, match, idle_prompt, done, callVars>>

pollVars == <<response, in_flight, overlapped>>

monitorVars == <<raw, session_states, live_outputs, pyte_renderers, raised, rendered,
                 pollVars>>

vars == <<output, verdict, detectorVars, monitorVars>>

(***************************************************************************)
(* Characters and vocabulary (claude_status.py, lines 24-88).              *)
(***************************************************************************)

\* The characters str.strip(), str.split() and the regex class \s remove.
WHITESPACE == {" ", "\t", "\r", "\f"}

\* The prompt caret, U+276F.
CARET == "U276F"

\* "?" as searched by the menu-confirmation rule.
QUESTION_MARK == "?"

\* The ellipsis U+2026.
ELLIPSIS == "U2026"

\* SPINNER_CHARS = frozenset of U+00B7 U+2722 U+2733 U+2736 U+273B U+273D.
SPINNER_CHARS == {"U00B7", "U2722", "U2733", "U2736", "U273B", "U273D"}

\* _SEPARATOR_CHARS = frozenset of U+2500 U+2501 U+254C U+254D U+2550.
SEPARATOR_CHARS == {"U2500", "U2501", "U254C", "U254D", "U2550"}

COMPLETED_WORDS ==
  {
    <<"B","a","k","e","d">>, <<"B","r","e","w","e","d">>, <<"C","h","u","r","n","e","d">>,
    <<"C","o","g","i","t","a","t","e","d">>, <<"C","o","o","k","e","d">>,
    <<"C","r","u","n","c","h","e","d">>, <<"S","a","u","t","U00E9","e","d">>,
    <<"W","o","r","k","e","d">>
  }

INTERACTIVE_PROMPTS ==
  <<
    <<"S","h","o","u","l","d"," ","I"," ","p","r","o","c","e","e","d","?">>,
    <<"D","o"," ","y","o","u"," ","w","a","n","t"," ","t","o"," ","p","r","o","c","e","e","d","?">>,
    <<"W","o","u","l","d"," ","y","o","u"," ","l","i","k","e"," ","t","o"," ","p","r","o","c","e","e","d","?">>,
    <<"W","o","u","l","d"," ","y","o","u"," ","l","i","k","e"," ","t","o"," ","p","r","o","c","e","e","d"," ","w","i","t","h"," ","t","h","i","s"," ","p","l","a","n","?">>,
    <<"P","r","o","c","e","e","d"," ","w","i","t","h"," ","t","h","i","s"," ","p","l","a","n","?">>,
    <<"R","e","a","d","y"," ","t","o"," ","s","u","b","m","i","t"," ","y","o","u","r"," ","a","n","s","w","e","r","s","?">>
  >>

PROCESSING_WORDS ==
  {
    <<"A","c","c","o","m","p","l","i","s","h","i","n","g">>,
    <<"A","c","t","i","o","n","i","n","g">>, <<"A","c","t","u","a","l","i","z","i","n","g">>,
    <<"A","d","d","i","n","g">>, <<"A","r","c","h","i","t","e","c","t","i","n","g">>,
    <<"B","a","k","i","n","g">>, <<"B","e","a","m","i","n","g">>,
    <<"B","e","b","o","p","p","i","n","'">>, <<"B","e","f","u","d","d","l","i","n","g">>,
    <<"B","i","l","l","o","w","i","n","g">>, <<"B","l","a","n","c","h","i","n","g">>,
    <<"B","l","o","v","i","a","t","i","n","g">>, <<"B","o","o","g","i","e","i","n","g">>,
    <<"B","o","o","n","d","o","g","g","l","i","n","g">>, <<"B","o","o","p","i","n","g">>,
    <<"B","o","o","t","s","t","r","a","p","p","i","n","g">>, <<"B","r","e","w","i","n","g">>,
    <<"B","u","r","r","o","w","i","n","g">>, <<"C","a","l","c","u","l","a","t","i","n","g">>,
    <<"C","a","n","o","o","d","l","i","n","g">>,
    <<"C","a","r","a","m","e","l","i","z","i","n","g">>, <<"C","a","s","c","a","d","i","n","g">>,
    <<"C","a","t","a","p","u","l","t","i","n","g">>,
    <<"C","e","r","e","b","r","a","t","i","n","g">>, <<"C","h","a","n","n","e","l","i","n","g">>,
    <<"C","h","a","n","n","e","l","l","i","n","g">>,
    <<"C","h","o","r","e","o","g","r","a","p","h","i","n","g">>,
    <<"C","h","u","r","n","i","n","g">>, <<"C","l","a","u","d","i","n","g">>,
    <<"C","o","a","l","e","s","c","i","n","g">>, <<"C","o","g","i","t","a","t","i","n","g">>,
    <<"C","o","m","b","o","b","u","l","a","t","i","n","g">>,
    <<"C","o","m","p","o","s","i","n","g">>, <<"C","o","m","p","u","t","i","n","g">>,
    <<"C","o","n","c","o","c","t","i","n","g">>, <<"C","o","n","s","i","d","e","r","i","n","g">>,
    <<"C","o","n","t","e","m","p","l","a","t","i","n","g">>, <<"C","o","o","k","i","n","g">>,
    <<"C","r","a","f","t","i","n","g">>, <<"C","r","e","a","t","i","n","g">>,
    <<"C","r","u","n","c","h","i","n","g">>,
    <<"C","r","y","s","t","a","l","l","i","z","i","n","g">>,
    <<"C","u","l","t","i","v","a","t","i","n","g">>,
    <<"D","e","c","i","p","h","e","r","i","n","g">>,
    <<"D","e","l","i","b","e","r","a","t","i","n","g">>,
    <<"D","e","t","e","r","m","i","n","i","n","g">>,
    <<"D","i","l","l","y","-","d","a","l","l","y","i","n","g">>,
    <<"D","i","s","c","o","m","b","o","b","u","l","a","t","i","n","g">>, <<"D","o","i","n","g">>,
    <<"D","o","o","d","l","i","n","g">>, <<"D","r","i","z","z","l","i","n","g">>,
    <<"E","b","b","i","n","g">>, <<"E","f","f","e","c","t","i","n","g">>,
    <<"E","l","u","c","i","d","a","t","i","n","g">>,
    <<"E","m","b","e","l","l","i","s","h","i","n","g">>,
    <<"E","n","c","h","a","n","t","i","n","g">>, <<"E","n","v","i","s","i","o","n","i","n","g">>,
    <<"E","v","a","p","o","r","a","t","i","n","g">>, <<"F","e","r","m","e","n","t","i","n","g">>,
    <<"F","i","d","d","l","e","-","f","a","d","d","l","i","n","g">>,
    <<"F","i","n","a","g","l","i","n","g">>, <<"F","l","a","m","b","U00E9","i","n","g">>,
    <<"F","l","i","b","b","e","r","t","i","g","i","b","b","e","t","i","n","g">>,
    <<"F","l","o","w","i","n","g">>, <<"F","l","u","m","m","o","x","i","n","g">>,
    <<"F","l","u","t","t","e","r","i","n","g">>, <<"F","o","r","g","i","n","g">>,
    <<"F","o","r","m","i","n","g">>, <<"F","r","o","l","i","c","k","i","n","g">>,
    <<"F","r","o","s","t","i","n","g">>, <<"G","a","l","l","i","v","a","n","t","i","n","g">>,
    <<"G","a","l","l","o","p","i","n","g">>, <<"G","a","r","n","i","s","h","i","n","g">>,
    <<"G","e","n","e","r","a","t","i","n","g">>, <<"G","e","r","m","i","n","a","t","i","n","g">>,
    <<"G","i","t","i","f","y","i","n","g">>, <<"G","r","o","o","v","i","n","g">>,
    <<"G","u","s","t","i","n","g">>, <<"H","a","r","m","o","n","i","z","i","n","g">>,
    <<"H","a","s","h","i","n","g">>, <<"H","a","t","c","h","i","n","g">>,
    <<"H","e","r","d","i","n","g">>, <<"H","o","n","k","i","n","g">>,
    <<"H","u","l","l","a","b","a","l","l","o","o","i","n","g">>,
    <<"H","y","p","e","r","s","p","a","c","i","n","g">>, <<"I","d","e","a","t","i","n","g">>,
    <<"I","m","a","g","i","n","i","n","g">>, <<"I","m","p","r","o","v","i","s","i","n","g">>,
    <<"I","n","c","u","b","a","t","i","n","g">>, <<"I","n","f","e","r","r","i","n","g">>,
    <<"I","n","f","u","s","i","n","g">>, <<"I","o","n","i","z","i","n","g">>,
    <<"J","i","t","t","e","r","b","u","g","g","i","n","g">>,
    <<"J","u","l","i","e","n","n","i","n","g">>, <<"K","n","e","a","d","i","n","g">>,
    <<"L","e","a","v","e","n","i","n","g">>, <<"L","e","v","i","t","a","t","i","n","g">>,
    <<"L","o","l","l","y","g","a","g","g","i","n","g">>,
    <<"M","a","n","i","f","e","s","t","i","n","g">>, <<"M","a","r","i","n","a","t","i","n","g">>,
    <<"M","e","a","n","d","e","r","i","n","g">>,
    <<"M","e","t","a","m","o","r","p","h","o","s","i","n","g">>, <<"M","i","s","t","i","n","g">>,
    <<"M","o","o","n","w","a","l","k","i","n","g">>, <<"M","o","s","e","y","i","n","g">>,
    <<"M","u","l","l","i","n","g">>, <<"M","u","s","i","n","g">>,
    <<"M","u","s","t","e","r","i","n","g">>, <<"N","e","b","u","l","i","z","i","n","g">>,
    <<"N","e","s","t","i","n","g">>, <<"N","e","w","s","p","a","p","e","r","i","n","g">>,
    <<"N","o","o","d","l","i","n","g">>, <<"N","u","c","l","e","a","t","i","n","g">>,
    <<"O","r","b","i","t","i","n","g">>, <<"O","r","c","h","e","s","t","r","a","t","i","n","g">>,
    <<"O","s","m","o","s","i","n","g">>, <<"P","e","r","a","m","b","u","l","a","t","i","n","g">>,
    <<"P","e","r","c","o","l","a","t","i","n","g">>, <<"P","e","r","u","s","i","n","g">>,
    <<"P","h","i","l","o","s","o","p","h","i","s","i","n","g">>,
    <<"P","h","o","t","o","s","y","n","t","h","e","s","i","z","i","n","g">>,
    <<"P","o","l","l","i","n","a","t","i","n","g">>, <<"P","o","n","d","e","r","i","n","g">>,
    <<"P","o","n","t","i","f","i","c","a","t","i","n","g">>, <<"P","o","u","n","c","i","n","g">>,
    <<"P","r","e","c","i","p","i","t","a","t","i","n","g">>,
    <<"P","r","e","s","t","i","d","i","g","i","t","a","t","i","n","g">>,
    <<"P","r","o","c","e","s","s","i","n","g">>, <<"P","r","o","o","f","i","n","g">>,
    <<"P","r","o","p","a","g","a","t","i","n","g">>, <<"P","u","t","t","e","r","i","n","g">>,
    <<"P","u","z","z","l","i","n","g">>, <<"Q","u","a","n","t","u","m","i","z","i","n","g">>,
    <<"R","a","z","z","l","e","-","d","a","z","z","l","i","n","g">>,
    <<"R","a","z","z","m","a","t","a","z","z","i","n","g">>,
    <<"R","e","c","o","m","b","o","b","u","l","a","t","i","n","g">>,
    <<"R","e","t","i","c","u","l","a","t","i","n","g">>, <<"R","o","o","s","t","i","n","g">>,
    <<"R","u","m","i","n","a","t","i","n","g">>, <<"S","a","u","t","U00E9","i","n","g">>,
    <<"S","c","a","m","p","e","r","i","n","g">>, <<"S","c","h","l","e","p","p","i","n","g">>,
    <<"S","c","u","r","r","y","i","n","g">>, <<"S","e","a","s","o","n","i","n","g">>,
    <<"S","h","e","n","a","n","i","g","a","n","i","n","g">>,
    <<"S","h","i","m","m","y","i","n","g">>, <<"S","i","m","m","e","r","i","n","g">>,
    <<"S","k","e","d","a","d","d","l","i","n","g">>, <<"S","k","e","t","c","h","i","n","g">>,
    <<"S","l","i","t","h","e","r","i","n","g">>, <<"S","m","o","o","s","h","i","n","g">>,
    <<"S","o","c","k","-","h","o","p","p","i","n","g">>,
    <<"S","p","e","l","u","n","k","i","n","g">>, <<"S","p","i","n","n","i","n","g">>,
    <<"S","p","r","o","u","t","i","n","g">>, <<"S","t","e","w","i","n","g">>,
    <<"S","u","b","l","i","m","a","t","i","n","g">>, <<"S","w","i","r","l","i","n","g">>,
    <<"S","w","o","o","p","i","n","g">>, <<"S","y","m","b","i","o","t","i","n","g">>,
    <<"S","y","n","t","h","e","s","i","z","i","n","g">>, <<"T","e","m","p","e","r","i","n","g">>,
    <<"T","h","i","n","k","i","n","g">>, <<"T","h","u","n","d","e","r","i","n","g">>,
    <<"T","i","n","k","e","r","i","n","g">>, <<"T","o","m","f","o","o","l","e","r","i","n","g">>,
    <<"T","o","p","s","y","-","t","u","r","v","y","i","n","g">>,
    <<"T","r","a","n","s","f","i","g","u","r","i","n","g">>,
    <<"T","r","a","n","s","m","u","t","i","n","g">>, <<"T","w","i","s","t","i","n","g">>,
    <<"U","n","d","u","l","a","t","i","n","g">>, <<"U","n","f","u","r","l","i","n","g">>,
    <<"U","n","r","a","v","e","l","l","i","n","g">>, <<"V","i","b","i","n","g">>,
    <<"W","a","d","d","l","i","n","g">>, <<"W","a","n","d","e","r","i","n","g">>,
    <<"W","a","r","p","i","n","g">>,
    <<"W","h","a","t","c","h","a","m","a","c","a","l","l","i","t","i","n","g">>,
    <<"W","h","i","r","l","p","o","o","l","i","n","g">>, <<"W","h","i","r","r","i","n","g">>,
    <<"W","h","i","s","k","i","n","g">>, <<"W","i","b","b","l","i","n","g">>,
    <<"W","o","r","k","i","n","g">>, <<"W","r","a","n","g","l","i","n","g">>,
    <<"W","r","i","t","i","n","g">>, <<"Z","e","s","t","i","n","g">>,
    <<"Z","i","g","z","a","g","g","i","n","g">>
  }

(***************************************************************************)
(* Python's string operations, as the code uses them.                      *)
(***************************************************************************)

\* str.lstrip(): drop the leading whitespace.
RECURSIVE LStrip(_)
LStrip(s) ==
  IF s = <<>> THEN <<>>
  ELSE IF Head(s) \in WHITESPACE THEN LStrip(Tail(s)) ELSE s

\* str.rstrip(): drop the trailing whitespace.
RECURSIVE RStrip(_)
RStrip(s) ==
  IF s = <<>> THEN <<>>
  ELSE IF s[Len(s)] \in WHITESPACE THEN RStrip(SubSeq(s, 1, Len(s) - 1)) ELSE s

\* str.strip().
Strip(s) == RStrip(LStrip(s))

\* `sub in s` for strings: sub occurs in s as a contiguous substring.
Contains(s, sub) ==
  \E k \in 1..(Len(s) - Len(sub) + 1) : SubSeq(s, k, k + Len(sub) - 1) = sub

\* `c in s` for a single character c.
HasChar(s, c) == \E k \in 1..Len(s) : s[k] = c

\* The index of the first occurrence of character c in s (c occurs in s).
FirstIndex(s, c) == CHOOSE k \in 1..Len(s) : s[k] = c /\ \A j \in 1..(k - 1) : s[j] # c

\* s.split(c, 1)[1]: what follows the first occurrence of c.
AfterFirst(s, c) == SubSeq(s, FirstIndex(s, c) + 1, Len(s))

\* s.endswith(suffix).
EndsWith(s, suffix) ==
  Len(s) >= Len(suffix) /\ SubSeq(s, Len(s) - Len(suffix) + 1, Len(s)) = suffix

\* s.split()[0] for a string that starts with a non-whitespace character:
\* the characters up to the first whitespace.
RECURSIVE FirstToken(_)
FirstToken(s) ==
  IF s = <<>> \/ Head(s) \in WHITESPACE THEN <<>>
  ELSE <<Head(s)>> \o FirstToken(Tail(s))

\* rest.split()[0] if rest.split() else "".
FirstWord(rest) == FirstToken(LStrip(rest))

\* output.split("\n"): line j runs from after the (j-1)-th "\n" to before the
\* j-th one; a string with n newlines has n + 1 lines.
SplitLines(s) ==
  LET nl       == {k \in 1..Len(s) : s[k] = "\n"}
      Break(j) == IF j = 0 THEN 0
                  ELSE IF j > Cardinality(nl) THEN Len(s) + 1
                  ELSE CHOOSE k \in nl : Cardinality({m \in nl : m < k}) = j - 1
  IN [j \in 1..(Cardinality(nl) + 1) |-> SubSeq(s, Break(j - 1) + 1, Break(j) - 1)]

\* "\n".join(ls).
RECURSIVE JoinLines(_)
JoinLines(ls) ==
  IF ls = <<>> THEN <<>>
  ELSE IF Len(ls) = 1 THEN ls[1]
  ELSE ls[1] \o <<"\n">> \o JoinLines(Tail(ls))

(***************************************************************************)
(* Helpers of the detector (claude_status.py, lines 95-118).               *)
(***************************************************************************)

\* The minimum length of a separator line.
SEPARATOR_MIN_LEN == 4

\* _is_separator_line(stripped).
is_separator_line(stripped) ==
  Len(stripped) >= SEPARATOR_MIN_LEN
  /\ \A k \in 1..Len(stripped) : stripped[k] \in SEPARATOR_CHARS

\* The default max_dist of _nearest_non_empty.
MAX_DIST == 3

\* The search with its range one short: for d in range(1, max_dist).
RECURSIVE NearestFromShort(_, _, _, _)
NearestFromShort(lines, idx, direction, d) ==
  IF d >= MAX_DIST THEN 0
  ELSE LET j == idx + direction * d IN
       IF j < 1 \/ j > Len(lines) THEN 0
       ELSE IF Strip(lines[j]) # <<>> THEN j
       ELSE NearestFromShort(lines, idx, direction, d + 1)

\* The search with its range one long: for d in range(1, max_dist + 2).
RECURSIVE NearestFromLong(_, _, _, _)
NearestFromLong(lines, idx, direction, d) ==
  IF d > MAX_DIST + 1 THEN 0
  ELSE LET j == idx + direction * d IN
       IF j < 1 \/ j > Len(lines) THEN 0
       ELSE IF Strip(lines[j]) # <<>> THEN j
       ELSE NearestFromLong(lines, idx, direction, d + 1)

\* _nearest_non_empty(lines, idx, direction): the index of the nearest line
\* with non-whitespace text, searching distances d, d+1, ..., MAX_DIST; 0 for
\* None.  Lines are numbered from 1.
RECURSIVE NearestFrom(_, _, _, _)
NearestFrom(lines, idx, direction, d) ==
  IF d > MAX_DIST THEN 0
  ELSE LET j == idx + direction * d IN
       IF j < 1 \/ j > Len(lines) THEN 0
       ELSE IF Strip(lines[j]) # <<>> THEN j
       ELSE NearestFrom(lines, idx, direction, d + 1)

nearest_non_empty(lines, idx, direction) == NearestFrom(lines, idx, direction, 1)

(***************************************************************************)
(* detect_claude_state (claude_status.py, lines 125-222).                  *)
(***************************************************************************)

Verdict(state, detail) == [state |-> state, detail |-> detail]

IDLE == Verdict("idle", <<>>)

\* The loop body's `continue`: the line gives no verdict.
CONTINUE == Verdict("continue", <<>>)

\* Rule A returning the prompt that occurs first in the line instead of the
\* first in list order.
FirstPromptInLine(stripped) ==
  LET hits == {p \in 1..Len(INTERACTIVE_PROMPTS) : Contains(stripped, INTERACTIVE_PROMPTS[p])}
      At(p) == CHOOSE k \in 1..Len(stripped) :
                 /\ SubSeq(stripped, k, k + Len(INTERACTIVE_PROMPTS[p]) - 1) = INTERACTIVE_PROMPTS[p]
                 /\ \A j \in 1..(k - 1) :
                      SubSeq(stripped, j, j + Len(INTERACTIVE_PROMPTS[p]) - 1) # INTERACTIVE_PROMPTS[p]
  IN IF hits = {} THEN 0 ELSE CHOOSE p \in hits : \A q \in hits : At(p) <= At(q)

\* Rule A: the first prompt of INTERACTIVE_PROMPTS, in list order, that the
\* stripped line contains; 0 if none.
FirstPrompt(stripped) ==
  LET hits == {p \in 1..Len(INTERACTIVE_PROMPTS) : Contains(stripped, INTERACTIVE_PROMPTS[p])}
  IN IF hits = {} THEN 0 ELSE CHOOSE p \in hits : \A q \in hits : p <= q

\* Rule B1 with the separator line below alone.
EnclosedBelow(lines, i) ==
  LET sep_below == nearest_non_empty(lines, i, 1)
  IN /\ sep_below # 0
     /\ is_separator_line(Strip(lines[sep_below]))

\* Rule B1: the caret line i is enclosed by separator lines.
Enclosed(lines, i) ==
  LET sep_above == nearest_non_empty(lines, i, -1)
      sep_below == nearest_non_empty(lines, i, 1)
  IN /\ sep_above # 0
     /\ is_separator_line(Strip(lines[sep_above]))
     /\ sep_below # 0
     /\ is_separator_line(Strip(lines[sep_below]))

\* The end of `range(1, 20)`, the offsets of the upward search for "?".
QUESTION_RANGE_END == 20

\* Rule B2: the upward search for "?" from the caret line i, at offsets
\* offset, offset+1, ..., QUESTION_RANGE_END - 1.
RECURSIVE QuestionFrom(_, _, _)
QuestionFrom(lines, i, offset) ==
  IF offset >= QUESTION_RANGE_END THEN FALSE
  ELSE LET above_idx == i - offset IN
       IF above_idx < 1 THEN FALSE
       ELSE IF Strip(lines[above_idx]) = <<>> THEN QuestionFrom(lines, i, offset + 1)
       ELSE IF is_separator_line(Strip(lines[above_idx])) THEN FALSE
       ELSE IF HasChar(lines[above_idx], QUESTION_MARK) THEN TRUE
       ELSE QuestionFrom(lines, i, offset + 1)

\* The search for "?" that does not stop at a separator line.
has_question_across(lines, i) ==
  \E offset \in 1..(QUESTION_RANGE_END - 1) :
    i - offset >= 1 /\ HasChar(lines[i - offset], QUESTION_MARK)

\* The search for "?" that starts at the caret line itself: range(0, 20).
has_question_from_caret(lines, i) == QuestionFrom(lines, i, 0)

has_question(lines, i) == QuestionFrom(lines, i, 1)

\* Rule B with the bare caret concluding idle at once instead of continuing
\* the scan.
CaretRuleBareIdle(lines, i, stripped) ==
  LET after == Strip(AfterFirst(stripped, CARET)) IN
  IF after # <<>> THEN
    IF Enclosed(lines, i) THEN Verdict("inputting", after)
    ELSE IF has_question(lines, i) THEN Verdict("interactive", after)
    ELSE CONTINUE
  ELSE IDLE

\* Rule B without the confirmation by "?": any caret with text that is not
\* enclosed counts as a menu.
CaretRuleNoConfirm(lines, i, stripped) ==
  LET after == Strip(AfterFirst(stripped, CARET)) IN
  IF after # <<>> THEN
    IF Enclosed(lines, i) THEN Verdict("inputting", after)
    ELSE Verdict("interactive", after)
  ELSE CONTINUE

\* Rule B on a stripped line that contains the caret.
CaretRule(lines, i, stripped) ==
  LET after == Strip(AfterFirst(stripped, CARET)) IN
  IF after # <<>> THEN
    IF Enclosed(lines, i) THEN Verdict("inputting", after)
    ELSE IF has_question(lines, i) THEN Verdict("interactive", after)
    ELSE CONTINUE
  ELSE CONTINUE

\* _SPINNER_RE = ^\s*([spinner])\s+(.*) matched at the start of the line.
SpinnerMatches(line) ==
  LET t == LStrip(line) IN
  Len(t) >= 2 /\ t[1] \in SPINNER_CHARS /\ t[2] \in WHITESPACE

\* m.group(2) of a line that _SPINNER_RE matches.
SpinnerGroup2(line) == LStrip(Tail(LStrip(line)))

\* Rule C without the completed words: every spinner with text is processing.
SpinnerRuleNoCompleted(line) ==
  IF SpinnerMatches(line) THEN
    LET rest == Strip(SpinnerGroup2(line)) IN
    IF rest = <<>> THEN CONTINUE ELSE Verdict("processing", rest)
  ELSE CONTINUE

\* Rule C without the check `if not rest: continue`.
SpinnerRuleNoRestCheck(line) ==
  IF SpinnerMatches(line) THEN
    LET rest       == Strip(SpinnerGroup2(line))
        first_word == FirstWord(rest)
    IN IF first_word \in COMPLETED_WORDS THEN Verdict("completed", first_word)
       ELSE Verdict("processing", rest)
  ELSE CONTINUE

\* Rule C with the whole text after the glyph as the detail of completed.
SpinnerRuleWholeText(line) ==
  IF SpinnerMatches(line) THEN
    LET rest       == Strip(SpinnerGroup2(line))
        first_word == FirstWord(rest)
    IN IF rest = <<>> THEN CONTINUE
       ELSE IF first_word \in COMPLETED_WORDS THEN Verdict("completed", rest)
       ELSE Verdict("processing", rest)
  ELSE CONTINUE

\* Rule C on a line.
SpinnerRule(line) ==
  IF SpinnerMatches(line) THEN
    LET rest       == Strip(SpinnerGroup2(line))
        first_word == FirstWord(rest)
    IN IF rest = <<>> THEN CONTINUE
       ELSE IF first_word \in COMPLETED_WORDS THEN Verdict("completed", first_word)
       ELSE IF first_word \in PROCESSING_WORDS THEN Verdict("processing", rest)
       ELSE IF EndsWith(rest, <<ELLIPSIS>>) \/ EndsWith(rest, <<".", ".", ".">>)
            THEN Verdict("processing", rest)
       ELSE Verdict("processing", rest)
  ELSE CONTINUE

\* One iteration of the scan: the verdict line i returns, or CONTINUE.
ScanLine(lines, i) ==
  LET line     == lines[i]
      stripped == Strip(line)
      prompt   == FirstPrompt(stripped)
  IN IF stripped = <<>> THEN CONTINUE
     ELSE IF prompt # 0 THEN Verdict("interactive", INTERACTIVE_PROMPTS[prompt])
     ELSE IF HasChar(stripped, CARET) THEN CaretRule(lines, i, stripped)
     ELSE SpinnerRule(line)

\* The scan with its direction reversed: the topmost line that gives a verdict
\* decides.
ScanFromTop(lines, i) ==
  LET firing == {j \in 1..i : ScanLine(lines, j) # CONTINUE} IN
  IF firing = {} THEN IDLE
  ELSE ScanLine(lines, CHOOSE j \in firing : \A k \in firing : j <= k)

\* for i in range(len(lines) - 1, -1, -1): the scan from line i upward.
RECURSIVE ScanFrom(_, _)
ScanFrom(lines, i) ==
  IF i < 1 THEN IDLE
  ELSE LET v == ScanLine(lines, i) IN
       IF v # CONTINUE THEN v ELSE ScanFrom(lines, i - 1)

detect_claude_state(out) ==
  IF out = <<>> THEN IDLE
  ELSE LET lines == SplitLines(out) IN ScanFrom(lines, Len(lines))

(***************************************************************************)
(* Screens.  The terminal writes text at the start of a line and ends      *)
(* lines; the detector classifies whatever screen there is.                *)
(***************************************************************************)

\* The lines of the general screens.
L_SEP          == <<"U2500","U2500","U2500","U2500">>
L_CARET        == <<"U276F">>
L_CARET_TEXT   == <<" ","U276F"," ","l","s">>
L_QUESTION     == <<"Q","?">>
L_SPIN_PROC    == <<"U273B"," ","T","h","i","n","k","i","n","g">>
L_SPIN_DONE    == <<"U2733"," ","B","a","k","e","d"," ","2","m">>
L_PROMPT       == <<"S","h","o","u","l","d"," ","I"," ","p","r","o","c","e","e","d","?">>
L_TEXT         == <<" "," ","c","t","x">>
L_SPIN_PROMPT  == <<"U273B"," ">> \o L_PROMPT
L_CARET_PROMPT == <<"U276F"," ">> \o L_PROMPT

ScreenLines ==
  {L_SEP, L_CARET, L_CARET_TEXT, L_QUESTION, L_SPIN_PROC, L_SPIN_DONE, L_PROMPT, L_TEXT,
   L_SPIN_PROMPT, L_CARET_PROMPT}

\* The most lines a general screen has.
MaxLines == 4

\* detect_interactive's None.
NULL == [interaction_type |-> "null", choices |-> <<>>, matched_text |-> <<>>]

\* No error raised.
NO_ERROR == "none"

\* A dict without keys.
EMPTY_DICT == [k \in {} |-> <<>>]

\* The detector has not been applied to the screen.
\* The module-level vocabulary as the import of claude_status.py leaves it.
VOCABULARY ==
  [SPINNER_CHARS       |-> SPINNER_CHARS,
   SEPARATOR_CHARS     |-> SEPARATOR_CHARS,
   COMPLETED_WORDS     |-> COMPLETED_WORDS,
   INTERACTIVE_PROMPTS |-> INTERACTIVE_PROMPTS,
   PROCESSING_WORDS    |-> PROCESSING_WORDS]

\* The threads (or tasks) that call the classifiers.
THREADS == {"t1", "t2"}

\* A thread that is in no call.
NO_CALL == [function |-> "none", text |-> <<>>]

DetectorIdle ==
  /\ mode = "default"
  /\ match = NULL
  /\ idle_prompt = FALSE
  /\ done = {}
  /\ vocabulary = VOCABULARY
  /\ calls = [t \in THREADS |-> NO_CALL]
  /\ memo = <<>>

\* No response built yet.
NO_RESPONSE == [terminal_state |-> "none"]

\* No poll suspended, none resumed out of order, no response built.
PollsIdle ==
  /\ response = NO_RESPONSE
  /\ in_flight = {}
  /\ overlapped = {}

\* StatusDetector.__init__: no session, no cached output, no renderer.
MonitorInit ==
  /\ raw = <<>>
  /\ session_states = EMPTY_DICT
  /\ live_outputs = EMPTY_DICT
  /\ pyte_renderers = {}
  /\ raised = NO_ERROR
  /\ rendered = EMPTY_DICT
  /\ PollsIdle

\* No verdict yet for the present screen.
NONE == Verdict("none", <<>>)

NumLines(out) == Cardinality({k \in 1..Len(out) : out[k] = "\n"}) + 1

AtLineStart(out) == IF out = <<>> THEN TRUE ELSE out[Len(out)] = "\n"

Init ==
  /\ output = <<>>
  /\ verdict = NONE
  /\ DetectorIdle
  /\ MonitorInit

\* The terminal writes the text l at the start of the last line.
WriteText(l) ==
  /\ AtLineStart(output)
  /\ output' = output \o l
  /\ verdict' = NONE
  /\ UNCHANGED <<detectorVars, monitorVars>>

\* The terminal ends the last line.
WriteNewline ==
  /\ NumLines(output) < MaxLines
  /\ output' = output \o <<"\n">>
  /\ verdict' = NONE
  /\ UNCHANGED <<detectorVars, monitorVars>>

\* The monitor classifies the screen.
Classify ==
  /\ verdict = NONE
  /\ verdict' = detect_claude_state(output)
  /\ UNCHANGED <<output, detectorVars, monitorVars>>

Next ==
  \/ \E l \in ScreenLines : WriteText(l)
  \/ WriteNewline
  \/ Classify

Spec == Init /\ [][Next]_vars

(***************************************************************************)
(* Screens in the layout of the CLI: some body lines, then the footer of   *)
(* the simulator's cli_footer(): divider, bare caret, divider, mode line.  *)
(***************************************************************************)

L_CARET_WS   == <<"U276F"," ","\t">>
L_SPIN_CARET == L_SPIN_PROC \o <<" ","U276F">>
L_MODE       == <<" "," ","U23F5","U23F5"," ","a","c","c","e","p","t"," ","e","d","i","t","s">>

\* The sequences of at most n elements of S.
RECURSIVE SeqsUpTo(_, _)
SeqsUpTo(S, n) ==
  IF n = 0 THEN {<<>>}
  ELSE LET P == SeqsUpTo(S, n - 1) IN P \cup {Append(q, x) : q \in P, x \in S}

BodyLines ==
  {<<>>, L_SPIN_PROC, L_SPIN_DONE, L_SPIN_PROMPT, L_SPIN_CARET, L_QUESTION, L_TEXT,
   L_CARET_TEXT, L_PROMPT}

\* The most body lines above a footer.
MaxBody == 2

Footers ==
  {upper \o caret \o lower \o foot :
     upper \in {<<>>, <<L_SEP>>},
     caret \in {<<L_CARET>>, <<L_CARET_WS>>, <<L_CARET, <<>>, L_CARET>>},
     lower \in {<<>>, <<L_SEP>>},
     foot  \in {<<>>, <<L_MODE>>}}

FooterScreens == {body \o foot : body \in SeqsUpTo(BodyLines, MaxBody), foot \in Footers}

InitFooter ==
  /\ output \in {JoinLines(s) : s \in FooterScreens}
  /\ verdict = NONE
  /\ DetectorIdle
  /\ MonitorInit

SpecFooter == InitFooter /\ [][Classify]_vars

(***************************************************************************)
(* Screens in the layout of the simulator's cli_footer_inputting(): lines  *)
(* above, a line above the caret, blank lines, the caret line, blank       *)
(* lines, a line below the caret, a last line.                             *)
(***************************************************************************)

L_WS        == <<" ","\t">>
L_SEP_SHORT == <<"U2500","U2500","U2500">>
L_SEP_MIX   == <<" ","U2501","U2550","U254C","U254D","U2500"," ">>
L_CARET_Q   == <<"U276F"," ","o","k","?">>

\* k whitespace-only lines.
Blanks(k) == [j \in 1..k |-> <<" ">>]

\* The most blank lines between the caret line and its neighbour.
MaxBlank == 3

InputScreens ==
  {above \o upper \o Blanks(a) \o <<caret>> \o Blanks(b) \o lower \o below :
     above \in {<<>>, <<L_QUESTION>>, <<L_PROMPT>>, <<L_SPIN_PROC>>},
     upper \in {<<>>, <<L_SEP>>, <<L_SEP_MIX>>, <<L_SEP_SHORT>>, <<L_TEXT>>},
     a     \in 0..MaxBlank,
     caret \in {L_CARET_TEXT, L_CARET_Q, L_CARET_PROMPT, L_CARET},
     b     \in 0..MaxBlank,
     lower \in {<<>>, <<L_SEP>>, <<L_SEP_SHORT>>, <<L_TEXT>>},
     below \in {<<>>, <<L_MODE>>, <<L_SPIN_PROC>>}}

InitInput ==
  /\ output \in {JoinLines(s) : s \in InputScreens}
  /\ verdict = NONE
  /\ DetectorIdle
  /\ MonitorInit

SpecInput == InitInput /\ [][Classify]_vars

(***************************************************************************)
(* Menus: a line with or without "?", a gap of filler lines, the caret     *)
(* line with text.                                                         *)
(***************************************************************************)

\* k copies of the line f.
Fill(f, k) == [j \in 1..k |-> f]

\* The most filler lines between the question line and the caret line.
MaxGap == 20

WindowScreens ==
  {top \o <<q>> \o Fill(f, k) \o mid \o <<L_CARET_TEXT>> \o below :
     top   \in {<<>>, <<L_SEP>>},
     q     \in {L_QUESTION, L_TEXT},
     f     \in {<<>>, L_TEXT},
     k     \in 0..MaxGap,
     mid   \in {<<>>, <<L_SEP>>},
     below \in {<<>>, <<L_TEXT>>, <<L_SEP>>}}

InitWindow ==
  /\ output \in {JoinLines(s) : s \in WindowScreens}
  /\ verdict = NONE
  /\ DetectorIdle
  /\ MonitorInit

SpecWindow == InitWindow /\ [][Classify]_vars

(***************************************************************************)
(* One spinner line: a spinner glyph, a space and a word of the            *)
(* vocabulary.                                                             *)
(***************************************************************************)

VocabScreens ==
  {<<g, " ">> \o w : g \in SPINNER_CHARS, w \in COMPLETED_WORDS \cup PROCESSING_WORDS}

InitVocab ==
  /\ output \in VocabScreens
  /\ verdict = NONE
  /\ DetectorIdle
  /\ MonitorInit

SpecVocab == InitVocab /\ [][Classify]_vars

(***************************************************************************)
(* Screens around one line that holds one or two literal prompts, as       *)
(* written or with the first letter of each in the other case.             *)
(***************************************************************************)

LowerCase(c) ==
  CASE c = "S" -> "s" [] c = "D" -> "d" [] c = "W" -> "w" [] c = "P" -> "p"
    [] c = "R" -> "r" [] OTHER -> c

\* Prompt p as written (exact) or with its first letter in lower case.
PromptText(p, exact) ==
  IF exact THEN INTERACTIVE_PROMPTS[p]
  ELSE [INTERACTIVE_PROMPTS[p] EXCEPT ![1] = LowerCase(@)]

PromptLines ==
  {prefix \o PromptText(p, exact)
          \o (IF q = 0 THEN <<>> ELSE <<" ">> \o PromptText(q, exact)) :
     prefix \in {<<>>, <<"U276F"," ">>, <<"U273B"," ">>, <<" "," ","C","t","x",":"," ">>},
     p      \in 1..Len(INTERACTIVE_PROMPTS),
     q      \in 0..Len(INTERACTIVE_PROMPTS),
     exact  \in BOOLEAN}

PromptScreens ==
  {above \o <<l>> \o below :
     above \in {<<>>, <<L_SPIN_PROC>>, <<L_PROMPT>>},
     l     \in PromptLines,
     below \in {<<>>, <<L_TEXT>>, <<L_CARET>>, <<L_CARET_TEXT>>, <<L_SPIN_PROC>>}}

InitPrompt ==
  /\ output \in {JoinLines(s) : s \in PromptScreens}
  /\ verdict = NONE
  /\ DetectorIdle
  /\ MonitorInit

SpecPrompt == InitPrompt /\ [][Classify]_vars

(***************************************************************************)
(* Screens of odd lines: whitespace, glyphs out of place, short dividers.  *)
(***************************************************************************)

L_SPIN_EMPTY   == <<"U273B"," ">>
L_SPIN_NOSPACE == <<"U273B","T","h","i","n","k","i","n","g">>
L_SPIN_UNKNOWN == <<" ","U00B7"," "," ","F","o","o"," ","b","a","r","U2026">>
L_GLYPH_MID    == <<"a"," ","U273B"," ","b">>
L_PROMPT_LOWER == <<"s","h","o","u","l","d"," ","i"," ","p","r","o","c","e","e","d","?">>

EdgeLines ==
  {<<>>, L_WS, L_PROMPT_LOWER, L_CARET_PROMPT, L_SPIN_EMPTY, L_SPIN_NOSPACE, L_SPIN_UNKNOWN,
   L_SPIN_DONE, L_CARET_TEXT, L_CARET_WS, L_SEP, L_SEP_SHORT, L_QUESTION, L_GLYPH_MID, L_TEXT}

\* The most lines of a screen of odd lines.
MaxEdge == 3

InitEdge ==
  /\ output \in {JoinLines(s) : s \in SeqsUpTo(EdgeLines, MaxEdge)}
  /\ verdict = NONE
  /\ DetectorIdle
  /\ MonitorInit

SpecEdge == InitEdge /\ [][Classify]_vars

(***************************************************************************)
(* The mode classifier (claude_status.py, lines 225-243).                  *)
(***************************************************************************)

UPPER_LETTERS ==
  <<"A","B","C","D","E","F","G","H","I","J","K","L","M",
    "N","O","P","Q","R","S","T","U","V","W","X","Y","Z">>

LOWER_LETTERS ==
  <<"a","b","c","d","e","f","g","h","i","j","k","l","m",
    "n","o","p","q","r","s","t","u","v","w","x","y","z">>

\* str.lower() on one character.
LowerChar(c) ==
  IF \E k \in 1..Len(UPPER_LETTERS) : UPPER_LETTERS[k] = c
  THEN LOWER_LETTERS[CHOOSE k \in 1..Len(UPPER_LETTERS) : UPPER_LETTERS[k] = c]
  ELSE c

\* str.lower().
Lower(s) == [k \in 1..Len(s) |-> LowerChar(s[k])]

\* The "paused" glyph U+23F8 and the "running" glyph U+23F5.
PAUSED == "U23F8"
RUNNING == "U23F5"

\* One pass of the loop body with the two tests in the other order.
ModeOfLineAcceptFirst(line) ==
  IF Contains(line, <<RUNNING, RUNNING>>) /\ Contains(Lower(line), <<"a","c","c","e","p","t">>)
  THEN "accept-edits"
  ELSE IF HasChar(line, PAUSED) /\ Contains(Lower(line), <<"p","l","a","n">>)
  THEN "plan"
  ELSE "none"

\* One pass of the loop body: the mode the line gives, "none" to go on.
ModeOfLine(line) ==
  IF HasChar(line, PAUSED) /\ Contains(Lower(line), <<"p","l","a","n">>)
  THEN "plan"
  ELSE IF Contains(line, <<RUNNING, RUNNING>>) /\ Contains(Lower(line), <<"a","c","c","e","p","t">>)
  THEN "accept-edits"
  ELSE "none"

\* `for line in lines` from line i on.
RECURSIVE ModeFrom(_, _)
ModeFrom(lines, i) ==
  IF i > Len(lines) THEN "default"
  ELSE IF ModeOfLine(lines[i]) # "none" THEN ModeOfLine(lines[i])
  ELSE ModeFrom(lines, i + 1)

detect_claude_mode(out) ==
  IF out = <<>> THEN "default" ELSE ModeFrom(SplitLines(out), 1)

L_PLAN       == <<"U23F8"," ","p","l","a","n"," ","m","o","d","e">>
L_PLAN_UPPER == <<" ","U23F8"," ","P","L","A","N">>
L_ACCEPT_CAP == <<"U23F5","U23F5"," ","A","c","c","e","p","t">>
L_BOTH       == <<"U23F5","U23F5"," ","a","c","c","e","p","t"," ","U23F8"," ","p","l","a","n">>
L_PAUSED     == <<"U23F8"," ","o","t","h","e","r">>
L_THE_PLAN   == <<"t","h","e"," ","p","l","a","n">>
L_RUN_ONE    == <<"U23F5"," ","a","c","c","e","p","t">>
L_RUN_APART  == <<"U23F5"," ","U23F5"," ","a","c","c","e","p","t">>
L_RUN_ONLY   == <<"U23F5","U23F5"," ","e","d","i","t","s">>

ModeLines ==
  {<<>>, L_TEXT, L_PLAN, L_PLAN_UPPER, L_MODE, L_ACCEPT_CAP, L_BOTH, L_PAUSED, L_THE_PLAN,
   L_RUN_ONE, L_RUN_APART, L_RUN_ONLY}

\* The most lines of a screen given to the mode classifier.
MaxMode == 3

InitMode ==
  /\ output \in {JoinLines(s) : s \in SeqsUpTo(ModeLines, MaxMode)}
  /\ verdict = NONE
  /\ DetectorIdle
  /\ MonitorInit

\* The monitor asks for the mode of the screen.
ClassifyMode ==
  /\ "mode" \notin done
  /\ mode' = detect_claude_mode(output)
  /\ done' = done \cup {"mode"}
  /\ UNCHANGED <<output, verdict, match, idle_prompt, callVars, monitorVars>>

SpecMode == InitMode /\ [][ClassifyMode]_vars

(***************************************************************************)
(* The interactive-prompt detector (terminal_detector.py).  The regular    *)
(* expressions are computed as Python's re computes them: the leftmost     *)
(* match, greedy runs, \s over whitespace and newline, "." over everything *)
(* but newline.                                                            *)
(***************************************************************************)

\* The regex class \s.
REGEX_SPACE == WHITESPACE \cup {"\n"}

\* The regex class \d.
DIGITS == {"0","1","2","3","4","5","6","7","8","9"}

\* The regex class \w: letters, digits, underscore; U+00E9 is a letter.
WORD_CHARS ==
  {UPPER_LETTERS[k] : k \in 1..Len(UPPER_LETTERS)} \cup
  {LOWER_LETTERS[k] : k \in 1..Len(LOWER_LETTERS)} \cup DIGITS \cup {"_", "U00E9"}

\* The characters of a menu row's marker: [\d\-\*\+], [\.\)] and [\-\*\+].
MARKER_CHARS == DIGITS \cup {"-", "*", "+"}
MARKER_TAIL == {".", ")"}
BULLET_CHARS == {"-", "*", "+"}

\* A greedy run X* from position i: the position after the longest run of
\* characters of class.
RunEnd(s, i, class) ==
  CHOOSE j \in i..(Len(s) + 1) :
    /\ \A k \in i..(j - 1) : s[k] \in class
    /\ IF j > Len(s) THEN TRUE ELSE s[j] \notin class

\* The literal w at position i, letters compared without case (re.IGNORECASE).
LiteralAt(s, i, w) ==
  /\ i >= 1
  /\ i + Len(w) - 1 <= Len(s)
  /\ \A j \in 1..Len(w) : LowerChar(s[i + j - 1]) = w[j]

\* The words ws joined by \s+ at position i: the position after the match,
\* 0 for no match.
RECURSIVE PhraseAt(_, _, _)
PhraseAt(s, i, ws) ==
  IF ~LiteralAt(s, i, ws[1]) THEN 0
  ELSE IF Len(ws) = 1 THEN i + Len(ws[1])
  ELSE LET j == RunEnd(s, i + Len(ws[1]), REGEX_SPACE)
       IN IF j = i + Len(ws[1]) THEN 0 ELSE PhraseAt(s, j, Tail(ws))

\* pattern.search(text) for a pattern given by ends, where ends[i] is the
\* position after its match at i or 0: the matched text in a one-element
\* tuple, <<>> for None.
Search(s, ends) ==
  LET starts == {i \in 1..Len(s) : ends[i] > 0}
  IN IF starts = {} THEN <<>>
     ELSE LET i == CHOOSE a \in starts : \A b \in starts : a <= b
          IN <<SubSeq(s, i, ends[i] - 1)>>

\* Allow\s+tool\s+\w+\?
PermissionAt(s, i) ==
  LET a == PhraseAt(s, i, << <<"a","l","l","o","w">>, <<"t","o","o","l">> >>)
      b == RunEnd(s, a, REGEX_SPACE)
      c == RunEnd(s, b, WORD_CHARS)
  IN IF a > 0 /\ b > a /\ c > b /\ c <= Len(s) /\ s[c] = "?" THEN c + 1 ELSE 0

\* CARET\s+\w+
HighlightedAt(s, i) ==
  LET b == RunEnd(s, i + 1, REGEX_SPACE)
      c == RunEnd(s, b, WORD_CHARS)
  IN IF s[i] = CARET /\ b > i + 1 /\ c > b THEN c ELSE 0

\* .*\? from position p: the position after the last "?" of p's line, 0 if none.
RestToQuestion(s, p) ==
  LET e  == RunEnd(s, p, {s[k] : k \in 1..Len(s)} \ {"\n"})
      qs == {k \in p..(e - 1) : s[k] = "?"}
  IN IF qs = {} THEN 0 ELSE (CHOOSE a \in qs : \A b \in qs : a >= b) + 1

\* Proceed(\s+with)?.*\?
PlanAt(s, i) ==
  LET p == PhraseAt(s, i, << <<"p","r","o","c","e","e","d">> >>)
      w == PhraseAt(s, i, << <<"p","r","o","c","e","e","d">>, <<"w","i","t","h">> >>)
  IN IF p = 0 THEN 0
     ELSE IF w > 0 /\ RestToQuestion(s, w) > 0 THEN RestToQuestion(s, w)
     ELSE RestToQuestion(s, p)

\* (Do\s+you\s+want|Would\s+you\s+like|Should\s+I)
UserQuestionAt(s, i) ==
  LET d == PhraseAt(s, i, << <<"d","o">>, <<"y","o","u">>, <<"w","a","n","t">> >>)
      w == PhraseAt(s, i, << <<"w","o","u","l","d">>, <<"y","o","u">>, <<"l","i","k","e">> >>)
      h == PhraseAt(s, i, << <<"s","h","o","u","l","d">>, <<"i">> >>)
  IN IF d > 0 THEN d ELSE IF w > 0 THEN w ELSE h

\* re.match(r'^\s*[\d\-\*\+][\.\)]*\s+\w+', line)
IsMenuLine(line) ==
  LET a == RunEnd(line, 1, REGEX_SPACE)
      b == RunEnd(line, a + 1, MARKER_TAIL)
      c == RunEnd(line, b, REGEX_SPACE)
  IN /\ a <= Len(line)
     /\ line[a] \in MARKER_CHARS
     /\ c > b
     /\ c <= Len(line)
     /\ line[c] \in WORD_CHARS

\* \bword\b, re.IGNORECASE: the word with no word character on either side.
WordFoundAsSubstring(text, word) ==
  \E i \in 1..Len(text) : LiteralAt(text, i, word)

WordFound(text, word) ==
  \E i \in 1..Len(text) :
    /\ LiteralAt(text, i, word)
    /\ IF i = 1 THEN TRUE ELSE text[i - 1] \notin WORD_CHARS
    /\ IF i + Len(word) > Len(text) THEN TRUE ELSE text[i + Len(word)] \notin WORD_CHARS

YES == <<"Y","e","s">>
NO == <<"N","o">>
PROCEED == <<"P","r","o","c","e","e","d">>
CANCEL == <<"C","a","n","c","e","l">>

\* The choices of cs whose word is found in text, in the order of cs.
RECURSIVE FoundOf(_, _)
FoundOf(text, cs) ==
  IF cs = <<>> THEN <<>>
  ELSE (IF WordFound(text, Lower(cs[1])) THEN <<cs[1]>> ELSE <<>>) \o FoundOf(text, Tail(cs))

\* PERMISSION_CONFIRM and USER_QUESTION: Yes, No, or the default.
YesNoChoices(text) ==
  IF FoundOf(text, <<YES, NO>>) = <<>> THEN <<YES, NO>> ELSE FoundOf(text, <<YES, NO>>)

\* PLAN_APPROVAL with the searches for Proceed and Cancel left out.
PlanChoicesYesNo(text) ==
  IF FoundOf(text, <<YES, NO>>) = <<>> THEN <<YES, NO>> ELSE FoundOf(text, <<YES, NO>>)

\* PLAN_APPROVAL: Yes, No, Proceed, Cancel, or the default.
PlanChoices(text) ==
  IF FoundOf(text, <<YES, NO, PROCEED, CANCEL>>) = <<>> THEN <<YES, NO>>
  ELSE FoundOf(text, <<YES, NO, PROCEED, CANCEL>>)

\* The group (.+) of \s+(.+) at position p of a line, in a one-element tuple;
\* <<>> for no match.  When the whitespace runs to the end of the line, the
\* run gives its last character back to the group.
GroupAfterSpace(line, p) ==
  LET r == RunEnd(line, p, REGEX_SPACE)
  IN IF r = p THEN <<>>
     ELSE IF r <= Len(line) THEN <<SubSeq(line, r, Len(line))>>
     ELSE IF r - p >= 2 THEN <<SubSeq(line, Len(line), Len(line))>>
     ELSE <<>>

\* re.search(r'CARET\s+(.+)', line): the group of the leftmost match.
CaretOption(line) ==
  LET ks == {k \in 1..Len(line) : line[k] = CARET /\ GroupAfterSpace(line, k + 1) # <<>>}
  IN IF ks = {} THEN <<>>
     ELSE GroupAfterSpace(line, (CHOOSE a \in ks : \A b \in ks : a <= b) + 1)

\* re.match(r'^\s{2,}(\w+)', line)
IsIndentedOption(line) ==
  LET a == RunEnd(line, 1, REGEX_SPACE)
  IN a >= 3 /\ a <= Len(line) /\ line[a] \in WORD_CHARS

\* HIGHLIGHTED_OPTION: the choice of one line, <<>> for none.
HighlightedChoice(line) ==
  IF HasChar(line, CARET)
  THEN IF CaretOption(line) # <<>> THEN <<Strip(CaretOption(line)[1])>> ELSE <<>>
  ELSE IF IsIndentedOption(line)
  THEN LET option_text == Strip(SubSeq(line, RunEnd(line, 1, REGEX_SPACE), Len(line)))
       IN IF option_text # <<>> /\ option_text[1] # CARET THEN <<option_text>> ELSE <<>>
  ELSE <<>>

\* re.match(r'^\s*\d+[\.\)]\s+(.+)', line): the group, <<>> for no match.
NumberedItem(line) ==
  LET a == RunEnd(line, 1, REGEX_SPACE)
      b == RunEnd(line, a, DIGITS)
  IN IF b > a /\ b <= Len(line) /\ line[b] \in MARKER_TAIL
     THEN GroupAfterSpace(line, b + 1) ELSE <<>>

\* re.match(r'^\s*[\-\*\+]\s+(.+)', line): the group, <<>> for no match.
BulletedItem(line) ==
  LET a == RunEnd(line, 1, REGEX_SPACE)
  IN IF a <= Len(line) /\ line[a] \in BULLET_CHARS
     THEN GroupAfterSpace(line, a + 1) ELSE <<>>

\* SELECTION_MENU: the choice of one line, <<>> for none.
MenuChoice(line) ==
  IF NumberedItem(line) # <<>> THEN <<Strip(NumberedItem(line)[1])>>
  ELSE IF BulletedItem(line) # <<>> THEN <<Strip(BulletedItem(line)[1])>>
  ELSE <<>>

\* The elements of the tuples of ss, in order.
RECURSIVE Concat(_)
Concat(ss) == IF ss = <<>> THEN <<>> ELSE ss[1] \o Concat(Tail(ss))

\* The elements of cs without those that occurred before.
RECURSIVE Distinct(_)
Distinct(cs) ==
  IF cs = <<>> THEN <<>>
  ELSE LET before == Distinct(SubSeq(cs, 1, Len(cs) - 1))
       IN IF \E k \in 1..Len(before) : before[k] = cs[Len(cs)] THEN before
          ELSE Append(before, cs[Len(cs)])

\* `for line in lines`: the choices of the lines, top to bottom.
HighlightedChoices(lines) == Concat([k \in 1..Len(lines) |-> HighlightedChoice(lines[k])])

MenuChoices(lines) == Concat([k \in 1..Len(lines) |-> MenuChoice(lines[k])])

\* _extract_choices with the rows of a menu listed once each.
extract_choices_distinct(text, pattern_type) ==
  CASE pattern_type = "permission_confirm" -> YesNoChoices(text)
    [] pattern_type = "highlighted_option" ->
         Distinct(HighlightedChoices(SplitLines(text)))
    [] pattern_type = "plan_approval"      -> PlanChoices(text)
    [] pattern_type = "user_question"      -> YesNoChoices(text)
    [] pattern_type = "selection_menu"     -> Distinct(MenuChoices(SplitLines(text)))

extract_choices(text, pattern_type) ==
  CASE pattern_type = "permission_confirm" -> YesNoChoices(text)
    [] pattern_type = "highlighted_option" -> HighlightedChoices(SplitLines(text))
    [] pattern_type = "plan_approval"      -> PlanChoices(text)
    [] pattern_type = "user_question"      -> YesNoChoices(text)
    [] pattern_type = "selection_menu"     -> MenuChoices(SplitLines(text))

InteractionMatch(interaction_type, choices, matched_text) ==
  [interaction_type |-> interaction_type, choices |-> choices, matched_text |-> matched_text]

\* A checker that searches the text for one pattern, given by the ends of
\* its matches.
CheckPattern(text, ends, pattern_type) ==
  IF Search(text, ends) # <<>>
  THEN InteractionMatch(pattern_type, extract_choices(text, pattern_type),
                        Search(text, ends)[1])
  ELSE NULL

check_permission_confirm(text) ==
  CheckPattern(text, [i \in 1..Len(text) |-> PermissionAt(text, i)], "permission_confirm")

check_highlighted_option(text) ==
  CheckPattern(text, [i \in 1..Len(text) |-> HighlightedAt(text, i)], "highlighted_option")

check_plan_approval(text) ==
  CheckPattern(text, [i \in 1..Len(text) |-> PlanAt(text, i)], "plan_approval")

check_user_question(text) ==
  CheckPattern(text, [i \in 1..Len(text) |-> UserQuestionAt(text, i)], "user_question")

\* The lines of ls that are menu lines, in order.
RECURSIVE MatchingLines(_)
MatchingLines(ls) ==
  IF ls = <<>> THEN <<>>
  ELSE (IF IsMenuLine(ls[1]) THEN <<ls[1]>> ELSE <<>>) \o MatchingLines(Tail(ls))

MIN_MENU_LINES == 2

check_selection_menu(text) ==
  LET matching_lines == MatchingLines(SplitLines(text))
  IN IF Len(matching_lines) >= MIN_MENU_LINES
     THEN InteractionMatch("selection_menu", extract_choices(text, "selection_menu"),
                           JoinLines(matching_lines))
     ELSE NULL

\* detect_interactive with the highlighted-option check moved to the front.
detect_interactive_caret_first(text_lines) ==
  LET text == JoinLines(text_lines)
  IN IF check_highlighted_option(text) # NULL THEN check_highlighted_option(text)
     ELSE IF check_permission_confirm(text) # NULL THEN check_permission_confirm(text)
     ELSE IF check_plan_approval(text) # NULL THEN check_plan_approval(text)
     ELSE IF check_user_question(text) # NULL THEN check_user_question(text)
     ELSE check_selection_menu(text)

detect_interactive(text_lines) ==
  LET text == JoinLines(text_lines)
  IN IF check_permission_confirm(text) # NULL THEN check_permission_confirm(text)
     ELSE IF check_highlighted_option(text) # NULL THEN check_highlighted_option(text)
     ELSE IF check_plan_approval(text) # NULL THEN check_plan_approval(text)
     ELSE IF check_user_question(text) # NULL THEN check_user_question(text)
     ELSE check_selection_menu(text)

\* CARET\s*$ with re.MULTILINE: the caret, whitespace, then a line's end.
IdleAt(s, i) ==
  /\ s[i] = CARET
  /\ \E j \in (i + 1)..RunEnd(s, i + 1, REGEX_SPACE) : IF j > Len(s) THEN TRUE ELSE s[j] = "\n"

\* detect_idle_prompt with $ only at the end of the text.
detect_idle_prompt_at_end(text) ==
  \E i \in 1..Len(text) : text[i] = CARET /\ RunEnd(text, i + 1, REGEX_SPACE) > Len(text)

detect_idle_prompt(text) == \E i \in 1..Len(text) : IdleAt(text, i)

\* The orchestrator runs the detector over the lines of the screen.
DetectInteractive ==
  /\ "interactive" \notin done
  /\ match' = detect_interactive(SplitLines(output))
  /\ done' = done \cup {"interactive"}
  /\ UNCHANGED <<output, verdict, mode, idle_prompt, callVars, monitorVars>>

\* The orchestrator asks whether the screen shows an idle prompt.
DetectIdlePrompt ==
  /\ "idle_prompt" \notin done
  /\ idle_prompt' = detect_idle_prompt(output)
  /\ done' = done \cup {"idle_prompt"}
  /\ UNCHANGED <<output, verdict, mode, match, callVars, monitorVars>>

(***************************************************************************)
(* Screens for the detector: prompts of the five kinds mixed, so that      *)
(* several patterns match one text.                                        *)
(***************************************************************************)

D_ALLOW     == <<"A","l","l","o","w"," ","t","o","o","l"," ","x","?">>
D_ALLOW_LOW == <<"a","l","l","o","w"," "," ","t","o","o","l"," ","B","a","s","h","?"," ","y","e","s">>
D_CARET_YES == <<"U276F"," ","Y","e","s">>
D_PROCEED   == <<"P","r","o","c","e","e","d"," ","w","i","t","h"," ","t","h","i","s"," ","p","l","a","n","?">>
D_SHOULD    == <<"S","h","o","u","l","d"," ","I"," ","g","o"," ","o","n">>
D_DO_YOU    == <<"d","o"," ","y","o","u"," "," ","w","a","n","t"," ","i","t","?"," ","N","o">>
D_ITEM      == <<"1","."," ","f","o","o">>
D_DIGIT     == <<"2"," ","b","a","z">>
D_YES       == <<"Y","e","s">>
D_INDENT    == <<" "," ","N","o">>

DetectLines ==
  {<<>>, L_CARET, D_ALLOW, D_ALLOW_LOW, D_CARET_YES, D_PROCEED, D_SHOULD, D_DO_YOU, D_ITEM,
   D_DIGIT, D_YES}

\* The most lines of a screen given to the detector.
MaxDetect == 3

InitDetect ==
  /\ output \in {JoinLines(s) : s \in SeqsUpTo(DetectLines, MaxDetect)}
  /\ verdict = NONE
  /\ DetectorIdle
  /\ MonitorInit

SpecDetect == InitDetect /\ [][DetectInteractive]_vars

(***************************************************************************)
(* Screens of prompt lines: the caret bare, with whitespace, with text.    *)
(***************************************************************************)

I_TEXT  == <<"U276F"," ","l","s">>
I_MID   == <<"a"," ","U276F">>
I_TWO   == <<"U276F"," ","x"," ","U276F">>
I_TRAIL == <<"U276F"," ","x"," ">>
I_CR    == <<"U276F"," ","\r">>

IdleLines == {<<>>, L_WS, L_TEXT, L_CARET, L_CARET_WS, I_TEXT, I_MID, I_TWO, I_TRAIL, I_CR}

\* The most lines of a screen of prompt lines.
MaxIdle == 3

InitIdle ==
  /\ output \in {JoinLines(s) : s \in SeqsUpTo(IdleLines, MaxIdle)}
  /\ verdict = NONE
  /\ DetectorIdle
  /\ MonitorInit

SpecIdle == InitIdle /\ [][DetectIdlePrompt]_vars

(***************************************************************************)
(* Questions followed by answer lines: a permission, user or plan          *)
(* question, then lines that hold the choice words or look like them.      *)
(***************************************************************************)

Q_ALLOW_NOTE    == <<"A","l","l","o","w"," ","t","o","o","l"," ","N","o","t","e","p","a","d","?">>
Q_WOULD         == <<"W","o","u","l","d"," ","y","o","u"," ","l","i","k","e"," ","i","t","?"," ","y","e","s">>
Q_PROCEED       == <<"P","r","o","c","e","e","d","?">>
Q_PROCEEDING    == <<"P","r","o","c","e","e","d","i","n","g","?">>
Q_PROCEED_LOW   == <<"p","r","o","c","e","e","d"," ","w","i","t","h"," ","n","o"," ","c","h","a","n","g","e","s","?">>
Q_PROCEED_BREAK == <<"P","r","o","c","e","e","d">>

A_NO        == <<"N","o">>
A_YES_NO    == <<"(","Y","e","s","/","N","o",")">>
A_LOWER     == <<"y","e","s"," ","o","r"," ","n","o">>
A_YESTERDAY == <<"Y","e","s","t","e","r","d","a","y">>
A_NOTHING   == <<"N","o","t","h","i","n","g">>
A_UNDER     == <<"Y","e","s","_","N","o">>
A_CANCEL    == <<"C","a","n","c","e","l">>
A_CANCELLED == <<"c","a","n","c","e","l","l","e","d">>
A_WITH      == <<"w","i","t","h"," ","c","a","r","e","?">>
A_PROCEED   == <<"P","R","O","C","E","E","D">>

QuestionLines ==
  {D_ALLOW, Q_ALLOW_NOTE, D_SHOULD, Q_WOULD, Q_PROCEED, D_PROCEED, Q_PROCEEDING, Q_PROCEED_LOW,
   Q_PROCEED_BREAK}

AnswerLines ==
  {D_YES, A_NO, A_YES_NO, A_LOWER, A_YESTERDAY, A_NOTHING, A_UNDER, A_CANCEL, A_CANCELLED,
   A_WITH, A_PROCEED}

\* The most answer lines below a question.
MaxAnswers == 2

InitChoices ==
  /\ output \in {JoinLines(<<q>> \o a) : q \in QuestionLines, a \in SeqsUpTo(AnswerLines, MaxAnswers)}
  /\ verdict = NONE
  /\ DetectorIdle
  /\ MonitorInit

SpecChoices == InitChoices /\ [][DetectInteractive]_vars

(***************************************************************************)
(* Menus: rows with the caret, indented rows, numbered and bulleted rows,  *)
(* and rows that miss one of these shapes by a character.                  *)
(***************************************************************************)

M_CARET_TIGHT  == <<"U276F","Y","e","s">>
M_CARET_SPACES == <<"U276F"," "," ">>
M_CARET_IN     == <<" "," ","U276F"," ","b"," ","U276F"," ","c"," ">>
M_INDENT_DASH  == <<" "," ","-"," ","x">>
M_INDENT_TAB   == <<"\t","\t","f","o","o"," ">>
M_INDENT_ONE   == <<" ","b","a","r">>
M_NUM_PAREN    == <<" ","2",")"," ","b","a","r"," ","b","a","z"," ">>
M_NUM_LONG     == <<"1","2","."," ","f","o","o">>
M_NUM_TIGHT    == <<"1",".","f","o","o">>
M_NUM_BARE     == <<"3"," ","q","u","x">>
M_NUM_DOTS     == <<"4",".","."," ","q","u","u","x">>
M_BULLET       == <<"-"," ","f","o","o">>
M_BULLET_MARK  == <<"*"," ","!","!","!">>
M_BULLET_PLUS  == <<"+"," ","a"," ">>

CaretMenuLines ==
  {L_TEXT, D_CARET_YES, M_CARET_TIGHT, M_CARET_SPACES, M_CARET_IN, D_INDENT, M_INDENT_DASH,
   M_INDENT_TAB, M_INDENT_ONE}

ListMenuLines ==
  {L_TEXT, D_ITEM, M_NUM_PAREN, M_NUM_LONG, M_NUM_TIGHT, M_NUM_BARE, M_NUM_DOTS, M_BULLET,
   M_BULLET_MARK, M_BULLET_PLUS}

\* The most lines of a menu.
MaxMenu == 3

InitMenu ==
  /\ output \in {JoinLines(s) :
                   s \in SeqsUpTo(CaretMenuLines, MaxMenu) \cup SeqsUpTo(ListMenuLines, MaxMenu)}
  /\ verdict = NONE
  /\ DetectorIdle
  /\ MonitorInit

SpecMenu == InitMenu /\ [][DetectInteractive]_vars

(***************************************************************************)
(* The renderer (status_detector.py, lines 309-443; the same code in       *)
(* claude_status.py, lines 548-680).  render() is modelled on its fallback *)
(* path, taken when pyte is not installed: strip_ansi, then _clean_text.   *)
(***************************************************************************)

\* The characters _clean_text removes: U+200B..U+200F and U+FEFF.
INVISIBLE_CHARS == {"U200B", "U200C", "U200D", "U200E", "U200F", "UFEFF"}

\* The escape character U+001B and the characters of a CSI sequence's
\* parameters.
ESC == "U001B"
CSI_PARAMS == DIGITS \cup {";"}

\* strip_ansi: the text without its CSI sequences (ESC, "[", parameters, one
\* final character).
RECURSIVE strip_ansi(_)
strip_ansi(text) ==
  IF text = <<>> THEN <<>>
  ELSE IF text[1] = ESC /\ Len(text) >= 2 /\ text[2] = "["
  THEN LET e == RunEnd(text, 3, CSI_PARAMS)
       IN IF e > Len(text) THEN <<>> ELSE strip_ansi(SubSeq(text, e + 1, Len(text)))
  ELSE <<text[1]>> \o strip_ansi(Tail(text))

\* line.replace(char, '') for every char of invisible_chars.
Visible(c) == c \notin INVISIBLE_CHARS
RemoveInvisible(line) == SelectSeq(line, Visible)

\* _clean_text: rstrip each line, then remove the invisible characters of
\* each line, then join.
clean_text(text) ==
  LET lines == SplitLines(text)
  IN JoinLines([k \in 1..Len(lines) |-> RemoveInvisible(RStrip(lines[k]))])

\* _render_with_regex
render(raw_output) == clean_text(strip_ansi(raw_output))

\* The pieces raw output is made of.
RawPieces ==
  {<<"a">>, <<" ">>, <<"\t">>, <<"\n">>, <<"U200B">>, <<"UFEFF">>, <<ESC, "[", "0", "m">>}

\* The most pieces of a raw output.
MaxRaw == 4

InitRender ==
  /\ raw \in {Concat(s) : s \in SeqsUpTo(RawPieces, MaxRaw)}
  /\ output = <<>>
  /\ verdict = NONE
  /\ DetectorIdle
  /\ session_states = EMPTY_DICT
  /\ live_outputs = EMPTY_DICT
  /\ pyte_renderers = {}
  /\ raised = NO_ERROR
  /\ rendered = EMPTY_DICT
  /\ PollsIdle

\* The renderer turns the raw output into the screen text.
Render ==
  /\ "render" \notin done
  /\ output' = render(raw)
  /\ done' = done \cup {"render"}
  /\ UNCHANGED <<verdict, mode, match, idle_prompt, callVars, monitorVars>>

SpecRender == InitRender /\ [][Render]_vars

(***************************************************************************)
(* The monitor (status_detector.py, lines 448-538; the same code in        *)
(* claude_status.py, lines 687-772).                                       *)
(***************************************************************************)

SESSION_IDS == {"s1", "s2"}

\* The messages of the errors _poll_session raises.
NOT_FOUND == "Session not found"
STREAM_FAILED == "Failed to get stream output"

\* None of an Optional field; a value v of such a field is <<v>>.
None == <<>>

\* SessionState(session_id): the defaults of the dataclass.
SessionState ==
  [terminal_state      |-> "running",
   task_status         |-> "pending",
   stable_count        |-> 0,
   last_output         |-> <<>>,
   interaction_type    |-> None,
   choices             |-> None,
   started_at          |-> None,
   completed_at        |-> None,
   auto_response_count |-> 0,
   description         |-> "Session initialized"]

\* The raw outputs the stream action answers with; the first two render to
\* the same text.
RawOutputs == {<<"a">>, <<"a", " ">>, <<ESC, "[", "1", "m", "b">>}

\* The most successful polls of one session.
MaxPolls == 3

\* The dict that holds the entry d[k] = v alone.
PutAlone(d, k, v) == [j \in {k} |-> v]

\* The dict d with d[k] = v.
Put(d, k, v) == [j \in DOMAIN d \cup {k} |-> IF j = k THEN v ELSE d[j]]

\* A session starts to be monitored.
AddSession(session_id) ==
  /\ session_id \notin DOMAIN session_states
  /\ session_states' = Put(session_states, session_id, SessionState)
  /\ rendered' = Put(rendered, session_id, <<>>)
  /\ UNCHANGED <<output, verdict, detectorVars, raw, live_outputs, pyte_renderers, raised,
                 pollVars>>

\* The comparison with the count kept when the output changed.
next_stable_count_no_reset(state, rendered_output) ==
  IF rendered_output # state.last_output THEN state.stable_count ELSE state.stable_count + 1

\* The comparison with the previous output.
next_stable_count(state, rendered_output) ==
  IF rendered_output # state.last_output THEN 0 ELSE state.stable_count + 1

\* _poll_session with the output stored before the stream request is
\* answered.
poll_session_store_first(session_id, ok, raw_output) ==
  IF session_id \notin DOMAIN session_states
  THEN /\ raised' = NOT_FOUND
       /\ UNCHANGED <<output, verdict, detectorVars, raw, session_states, live_outputs,
                      pyte_renderers, rendered, pollVars>>
  ELSE LET rendered_output == render(raw_output)
           state           == session_states[session_id]
       IN /\ Len(rendered[session_id]) < MaxPolls
          /\ pyte_renderers' = pyte_renderers \cup {session_id}
          /\ session_states' =
               [session_states EXCEPT
                  ![session_id].stable_count = next_stable_count(state, rendered_output),
                  ![session_id].last_output  = rendered_output]
          /\ live_outputs' = Put(live_outputs, session_id, rendered_output)
          /\ rendered' = [rendered EXCEPT ![session_id] = Append(@, rendered_output)]
          /\ raw' = raw_output
          /\ raised' = IF ok THEN NO_ERROR ELSE STREAM_FAILED
          /\ UNCHANGED <<output, verdict, detectorVars, pollVars>>

\* _poll_session(session_id); the stream request fails (ok = FALSE) or
\* answers with raw_output.
poll_session(session_id, ok, raw_output) ==
  IF session_id \notin DOMAIN session_states
  THEN /\ raised' = NOT_FOUND
       /\ UNCHANGED <<output, verdict, detectorVars, raw, session_states, live_outputs,
                      pyte_renderers, rendered, pollVars>>
  ELSE IF ~ok
  THEN /\ pyte_renderers' = pyte_renderers \cup {session_id}
       /\ raised' = STREAM_FAILED
       /\ UNCHANGED <<output, verdict, detectorVars, raw, session_states, live_outputs,
                      rendered, pollVars>>
  ELSE LET rendered_output == render(raw_output)
           state           == session_states[session_id]
       IN /\ Len(rendered[session_id]) < MaxPolls
          /\ pyte_renderers' = pyte_renderers \cup {session_id}
          /\ session_states' =
               [session_states EXCEPT
                  ![session_id].stable_count = next_stable_count(state, rendered_output),
                  ![session_id].last_output  = rendered_output]
          /\ live_outputs' = Put(live_outputs, session_id, rendered_output)
          /\ rendered' = [rendered EXCEPT ![session_id] = Append(@, rendered_output)]
          /\ raw' = raw_output
          /\ raised' = NO_ERROR
          /\ UNCHANGED <<output, verdict, detectorVars, pollVars>>

InitPoll ==
  /\ output = <<>>
  /\ verdict = NONE
  /\ DetectorIdle
  /\ MonitorInit

NextPoll ==
  \/ \E session_id \in SESSION_IDS : AddSession(session_id)
  \/ \E session_id \in SESSION_IDS, ok \in BOOLEAN, raw_output \in RawOutputs :
       poll_session(session_id, ok, raw_output)

SpecPoll == InitPoll /\ [][NextPoll]_vars

(***************************************************************************)
(* The status response (status_detector.py, lines 164-239).                *)
(***************************************************************************)

TerminalState == {"running", "interactive", "completed"}

TaskStatus == {"pending", "running", "waiting_for_input", "completed", "failed"}

InteractionType ==
  {"permission_confirm", "highlighted_option", "plan_approval", "user_question",
   "selection_menu"}

\* Times are whole seconds; a formatted time is the pair of the time and its
\* zone, UTC when the datetime had none.
format_timestamp(dt) == IF dt = None THEN None ELSE <<[seconds |-> dt[1], tz |-> "+00:00"]>>

calculate_duration(self) ==
  IF self.started_at = None \/ self.completed_at = None THEN None
  ELSE <<self.completed_at[1] - self.started_at[1]>>

\* StatusDetail with the interaction fields copied from the state.
to_status_response(self) ==
  [terminal_state |-> self.terminal_state,
   task_status    |-> self.task_status,
   stable_count   |-> self.stable_count,
   detail         |-> [description      |-> self.description,
                       interaction_type |-> self.interaction_type,
                       choices          |-> self.choices],
   timing         |-> [started_at       |-> format_timestamp(self.started_at),
                       completed_at     |-> format_timestamp(self.completed_at),
                       duration_seconds |-> calculate_duration(self)]]

\* The lists of choices and the times given to the constructor.
ChoiceLists == {<<>>, <<YES>>, <<YES, NO>>}
MaxTime == 1
Times == {None} \cup {<<n>> : n \in 0..MaxTime}

\* The states SessionState(...) constructs: any value of its type in every
\* field the constructor takes.
SessionStates ==
  {[SessionState EXCEPT !.terminal_state   = ts,
                        !.task_status      = tk,
                        !.interaction_type = it,
                        !.choices          = ch,
                        !.started_at       = st,
                        !.completed_at     = ct] :
     ts \in TerminalState, tk \in {"pending", "completed"},
     it \in {None} \cup {<<i>> : i \in InteractionType},
     ch \in {None} \cup {<<c>> : c \in ChoiceLists},
     st \in Times, ct \in Times}

InitResponse ==
  /\ output = <<>>
  /\ verdict = NONE
  /\ DetectorIdle
  /\ raw = <<>>
  /\ session_states \in {Put(EMPTY_DICT, "s1", state) : state \in SessionStates}
  /\ live_outputs = EMPTY_DICT
  /\ pyte_renderers = {}
  /\ raised = NO_ERROR
  /\ rendered = EMPTY_DICT
  /\ PollsIdle

\* get_status answers with the response of the session's state.
StatusResponse(session_id) ==
  /\ session_id \in DOMAIN session_states
  /\ response = NO_RESPONSE
  /\ response' = to_status_response(session_states[session_id])
  /\ UNCHANGED <<output, verdict, detectorVars, raw, session_states, live_outputs,
                 pyte_renderers, raised, rendered, in_flight, overlapped>>

SpecResponse == InitResponse /\ [][\E session_id \in SESSION_IDS : StatusResponse(session_id)]_vars

(***************************************************************************)
(* Calls of the classifiers from several threads (claude_status.py, lines  *)
(* 125-243; terminal_detector.py, lines 104-165).  A call binds its        *)
(* argument when it starts and computes its result from that argument and  *)
(* the vocabulary; the screen may change and other calls may start and     *)
(* return in between.                                                      *)
(***************************************************************************)

FUNCTIONS == {"classify_state", "classify_mode", "detect_interactive", "detect_idle_prompt"}

\* The screens shown while the classifiers are called: a bare prompt, and a
\* question under a plan mode line.
PureScreens == {L_CARET, JoinLines(<<L_PLAN, L_PROMPT>>)}

\* The most calls started.
MaxCalls == 3

\* The number of calls started: those returned and those running.
Started == Len(memo) + Cardinality({t \in THREADS : calls[t] # NO_CALL})

\* The argument of the call of thread t, read from the screen as it is when
\* the call returns.
ArgumentShared(t) == output

\* The argument of the call of thread t: the parameter bound when the call
\* started, a local of the call.
Argument(t) == calls[t].text

\* The value the function computes for a text.
Result(function, text) ==
  CASE function = "classify_state"     -> detect_claude_state(text)
    [] function = "classify_mode"      -> detect_claude_mode(text)
    [] function = "detect_interactive" -> detect_interactive(SplitLines(text))
    [] function = "detect_idle_prompt" -> detect_idle_prompt(text)

InitPure ==
  /\ output \in PureScreens
  /\ verdict = NONE
  /\ DetectorIdle
  /\ MonitorInit

\* The terminal shows another screen.
ShowScreen(text) ==
  /\ text # output
  /\ output' = text
  /\ UNCHANGED <<verdict, detectorVars, monitorVars>>

\* Thread t calls a classifier with the screen text.
Call(t, function) ==
  /\ calls[t] = NO_CALL
  /\ Started < MaxCalls
  /\ calls' = [calls EXCEPT ![t] = [function |-> function, text |-> output]]
  /\ UNCHANGED <<output, verdict, mode, match, idle_prompt, done, vocabulary, memo,
                 monitorVars>>

\* The call of thread t returns; nothing but its result is written.
Return(t) ==
  /\ calls[t] # NO_CALL
  /\ memo' = Append(memo, [function |-> calls[t].function,
                           text     |-> calls[t].text,
                           result   |-> Result(calls[t].function, Argument(t))])
  /\ calls' = [calls EXCEPT ![t] = NO_CALL]
  /\ UNCHANGED <<output, verdict, mode, match, idle_prompt, done, vocabulary, monitorVars>>

NextPure ==
  \/ \E text \in PureScreens : ShowScreen(text)
  \/ \E t \in THREADS, function \in FUNCTIONS : Call(t, function)
  \/ \E t \in THREADS : Return(t)

SpecPure == InitPure /\ [][NextPure]_vars

(***************************************************************************)
(* Screens of spinner lines: a completed word with a duration, a           *)
(* processing word, an ellipsis, an unknown word, no text, no whitespace   *)
(* after the glyph, a literal prompt or a caret after the glyph.           *)
(***************************************************************************)

S_DONE_TIME == <<" "," ","U2733"," ","B","a","k","e","d"," ","f","o","r"," ","2","m">>
S_DONE_TAB  == <<"\t","U273D","\t","C","o","o","k","e","d","\t","1","s"," ">>
S_PROC      == <<"U273B"," ","T","h","i","n","k","i","n","g"," ","(","3","s",")">>
S_ELLIPSIS  == <<"U00B7"," ","R","e","a","d","U2026">>
S_UNKNOWN   == <<"U2736"," "," ","F","o","o"," ","b","a","r">>
S_LOWER     == <<"U2722"," ","b","a","k","e","d">>
S_BARE      == <<" ","U273B"," "," ">>
S_GLYPH     == <<"U273B">>
S_TIGHT     == <<"U273B","B","a","k","e","d">>
S_CARET     == <<"U2733"," ","B","a","k","e","d"," ","U276F"," ","g","o">>

SpinnerLines ==
  {S_DONE_TIME, S_DONE_TAB, S_PROC, S_ELLIPSIS, S_UNKNOWN, S_LOWER, S_BARE, S_GLYPH,
   S_TIGHT, S_CARET, L_SPIN_PROMPT, L_QUESTION, L_TEXT}

\* The most lines of a screen of spinner lines.
MaxSpin == 3

InitSpinner ==
  /\ output \in {JoinLines(s) : s \in SeqsUpTo(SpinnerLines, MaxSpin)}
  /\ verdict = NONE
  /\ DetectorIdle
  /\ MonitorInit

SpecSpinner == InitSpinner /\ [][Classify]_vars

(***************************************************************************)
(* _poll_session as the event loop runs it (status_detector.py, lines      *)
(* 485-538): the coroutine runs up to `await self._client.request(...)`,   *)
(* is suspended there, and runs from the answer to its end without another *)
(* await.  Several polls may be suspended at once.                         *)
(***************************************************************************)

\* The most polls suspended at one time.
MaxInFlight == 2

\* The most polls of one session that are answered or suspended.
MaxAsync == 2

\* The raw outputs that answer the suspended polls: nothing, and two texts
\* that render to the same text.
AsyncOutputs == {<<>>, <<"a">>, <<"a", " ">>}

\* The polls of a session that are suspended.
InFlightOf(session_id) == {r \in in_flight : r.session_id = session_id}

\* The output the poll compares with, were it read when the request was
\* sent.
PreviousOutputAtRequest(state, request) == request.last_output

\* previous_output = state.last_output, read after the await.
PreviousOutput(state, request) == state.last_output

\* Lines 501-519: the session is looked up, its renderer created if needed,
\* and the stream request sent.  The request remembers the last_output of
\* that moment, which the code does not read.
poll_request(session_id) ==
  IF session_id \notin DOMAIN session_states
  THEN /\ raised' = NOT_FOUND
       /\ UNCHANGED <<output, verdict, detectorVars, raw, session_states, live_outputs,
                      pyte_renderers, rendered, pollVars>>
  ELSE /\ Cardinality(in_flight) < MaxInFlight
       /\ Len(rendered[session_id]) + Cardinality(InFlightOf(session_id)) < MaxAsync
       /\ pyte_renderers' = pyte_renderers \cup {session_id}
       /\ in_flight' = in_flight \cup
            {[id          |-> CHOOSE n \in 1..MaxInFlight :
                                /\ \A r \in in_flight : r.id # n
                                /\ \A k \in 1..(n - 1) : \E r \in in_flight : r.id = k,
              session_id  |-> session_id,
              last_output |-> session_states[session_id].last_output]}
       /\ UNCHANGED <<output, verdict, detectorVars, raw, session_states, live_outputs,
                      raised, rendered, response, overlapped>>

\* Lines 519-538: the stream request of a suspended poll fails (ok = FALSE)
\* or answers with raw_output, and the poll runs to its end.
poll_resume(request, ok, raw_output) ==
  /\ request \in in_flight
  /\ in_flight' = in_flight \ {request}
  /\ overlapped' = IF InFlightOf(request.session_id) # {request}
                   THEN overlapped \cup {request.session_id} ELSE overlapped
  /\ IF ~ok
     THEN /\ raised' = STREAM_FAILED
          /\ UNCHANGED <<output, verdict, detectorVars, raw, session_states, live_outputs,
                         pyte_renderers, rendered, response>>
     ELSE LET session_id      == request.session_id
              rendered_output == render(raw_output)
              state           == session_states[session_id]
              previous_output == PreviousOutput(state, request)
          IN /\ session_states' =
                  [session_states EXCEPT
                     ![session_id].stable_count =
                        next_stable_count([state EXCEPT !.last_output = previous_output],
                                          rendered_output),
                     ![session_id].last_output = rendered_output]
             /\ live_outputs' = Put(live_outputs, session_id, rendered_output)
             /\ rendered' = [rendered EXCEPT ![session_id] = Append(@, rendered_output)]
             /\ raw' = raw_output
             /\ raised' = NO_ERROR
             /\ UNCHANGED <<output, verdict, detectorVars, pyte_renderers, response>>

NextAsync ==
  \/ \E session_id \in SESSION_IDS : AddSession(session_id)
  \/ \E session_id \in SESSION_IDS : poll_request(session_id)
  \/ \E request \in in_flight, ok \in BOOLEAN, raw_output \in AsyncOutputs :
       poll_resume(request, ok, raw_output)

SpecAsync == InitPoll /\ [][NextAsync]_vars

(***************************************************************************)
(* The vocabulary of the properties: the shapes of lines, stated on the    *)
(* screen itself.                                                          *)
(***************************************************************************)

Lines == SplitLines(output)

Classified == verdict # NONE

Blank(l) == \A k \in 1..Len(l) : l[k] \in WHITESPACE

\* A divider line: its non-blank part is at least 4 divider characters.
Divider(l) ==
  LET text == {k \in 1..Len(l) : l[k] \notin WHITESPACE} IN
  /\ Cardinality(text) >= 4
  /\ \A k \in text : l[k] \in SEPARATOR_CHARS
  /\ \A j, k \in text : \A m \in j..k : m \in text

HasPhrase(l) == \E p \in 1..Len(INTERACTIVE_PROMPTS) : Contains(l, INTERACTIVE_PROMPTS[p])

HasCaret(l) == \E k \in 1..Len(l) : l[k] = CARET

\* The trimmed text after the (first) caret of a line that has one.
AfterCaret(l) == Strip(AfterFirst(l, CARET))

CaretWithText(l) == HasCaret(l) /\ AfterCaret(l) # <<>>

BareCaret(l) == HasCaret(l) /\ AfterCaret(l) = <<>>

\* A spinner line with text: optional whitespace, a spinner glyph, whitespace,
\* and text that is not blank.
SpinnerWithText(l) ==
  \E k \in 1..(Len(l) - 2) :
    /\ \A j \in 1..(k - 1) : l[j] \in WHITESPACE
    /\ l[k] \in SPINNER_CHARS
    /\ l[k + 1] \in WHITESPACE
    /\ ~Blank(SubSeq(l, k + 2, Len(l)))

\* The nearest non-blank line above / below line i of ls; 0 if none.
NearestAbove(ls, i) ==
  LET S == {j \in 1..(i - 1) : ~Blank(ls[j])} IN
  IF S = {} THEN 0 ELSE CHOOSE j \in S : \A k \in S : k <= j

NearestBelow(ls, i) ==
  LET S == {j \in (i + 1)..Len(ls) : ~Blank(ls[j])} IN
  IF S = {} THEN 0 ELSE CHOOSE j \in S : \A k \in S : j <= k

\* Line i's nearest non-blank neighbours above and below are both dividers.
Flanked(ls, i) ==
  LET a == NearestAbove(ls, i)
      b == NearestBelow(ls, i)
  IN a # 0 /\ b # 0 /\ Divider(ls[a]) /\ Divider(ls[b])

\* ... and both lie at most n lines away.
FlankedWithin(ls, i, n) ==
  Flanked(ls, i) /\ i - NearestAbove(ls, i) <= n /\ NearestBelow(ls, i) - i <= n

\* A line containing "?" lies d lines above line i, no divider between them.
QuestionAt(ls, i, d) ==
  /\ i - d >= 1
  /\ HasChar(ls[i - d], QUESTION_MARK)
  /\ \A e \in 1..d : ~Divider(ls[i - e])

\* A rule fires on line i: a literal prompt phrase; else, on a caret line, text
\* after the caret that is divider-flanked (within 3 lines) or confirmed by a
\* "?" above (within 19 lines, before any divider); else a spinner with text.
Fires(ls, i) ==
  IF HasPhrase(ls[i]) THEN TRUE
  ELSE IF HasCaret(ls[i])
    THEN /\ AfterCaret(ls[i]) # <<>>
         /\ FlankedWithin(ls, i, 3) \/ \E d \in 1..19 : QuestionAt(ls, i, d)
  ELSE SpinnerWithText(ls[i])

Firing(ls) == {i \in 1..Len(ls) : Fires(ls, i)}

NoFireBelow(ls, i) == \A j \in (i + 1)..Len(ls) : ~Fires(ls, j)

Lowest(S) == CHOOSE j \in S : \A k \in S : k <= j

(***************************************************************************)
(* C1.  The scan is bottom-to-top: the verdict is that of the lowest line  *)
(* on which a rule fires (literal prompt phrase, confirmed caret with      *)
(* text, spinner with text), and idle when no line fires; a signal on a    *)
(* higher line never overrides one on a lower line.  A spinner above       *)
(* "Should I proceed?" gives (interactive, "Should I proceed?"); a spinner *)
(* below a question-confirmed caret menu gives processing.                 *)
(***************************************************************************)
C1_LowestFiringLineWins ==
  Classified =>
    LET ls == Lines
        F  == Firing(ls)
    IN /\ IF F = {} THEN verdict = IDLE
          ELSE verdict = ScanLine(ls, Lowest(F)) /\ verdict # CONTINUE
       /\ output = JoinLines(<<L_SPIN_PROC, L_PROMPT>>)
            => verdict = Verdict("interactive", L_PROMPT)
       /\ output = JoinLines(<<L_QUESTION, L_CARET_TEXT, L_SPIN_PROC>>)
            => verdict.state = "processing"

\* Two lines fire with different verdicts and the lower one decides.
C1_Witness ==
  /\ Classified
  /\ output = JoinLines(<<L_SPIN_PROC, L_PROMPT>>)
  /\ LET ls == Lines IN
     \E i, j \in Firing(ls) :
       i < j /\ ScanLine(ls, i) # ScanLine(ls, j) /\ verdict = ScanLine(ls, j)

(***************************************************************************)
(* C2 as stated.  On every screen in which a spinner line with non-empty   *)
(* text lies above one or more bare caret lines and no line below that     *)
(* spinner line fires a rule, the verdict is processing or completed.      *)
(***************************************************************************)
C2_AsStated ==
  Classified =>
    LET ls == Lines IN
    \A s \in 1..Len(ls) :
      ( /\ SpinnerWithText(ls[s])
        /\ \E b \in (s + 1)..Len(ls) : BareCaret(ls[b])
        /\ NoFireBelow(ls, s) )
      => verdict.state \in {"processing", "completed"}

\* The verdict of a spinner line with text: completed with its first word when
\* that is a completed word, else processing with the whole trimmed text.
SpinnerVerdict(l) ==
  LET rest == Strip(SubSeq(LStrip(l), 2, Len(LStrip(l)))) IN
  IF \E w \in COMPLETED_WORDS :
       /\ Len(rest) >= Len(w)
       /\ SubSeq(rest, 1, Len(w)) = w
       /\ Len(rest) > Len(w) => rest[Len(w) + 1] \in WHITESPACE
  THEN Verdict("completed",
               CHOOSE w \in COMPLETED_WORDS :
                 /\ Len(rest) >= Len(w)
                 /\ SubSeq(rest, 1, Len(w)) = w
                 /\ Len(rest) > Len(w) => rest[Len(w) + 1] \in WHITESPACE)
  ELSE Verdict("processing", rest)

(***************************************************************************)
(* C2, amended.  A caret line with no text after the caret never produces  *)
(* a verdict by itself: on every screen in which a spinner line with       *)
(* non-empty text that holds neither the caret nor a literal prompt phrase *)
(* lies above one or more bare caret lines, and no line below that spinner *)
(* line fires a rule, the verdict is the spinner's (processing or          *)
(* completed) and not idle, also with divider lines and a mode line around *)
(* the bare caret; with a bare caret on the screen the verdict is idle     *)
(* only when no line of the whole screen fires.                            *)
(***************************************************************************)
C2_BareCaretContinues ==
  Classified =>
    LET ls == Lines IN
    /\ \A s \in 1..Len(ls) :
         ( /\ SpinnerWithText(ls[s])
           /\ ~HasCaret(ls[s])
           /\ ~HasPhrase(ls[s])
           /\ \E b \in (s + 1)..Len(ls) : BareCaret(ls[b])
           /\ NoFireBelow(ls, s) )
         => /\ verdict.state \in {"processing", "completed"}
            /\ verdict = SpinnerVerdict(ls[s])
    /\ ( (\E b \in 1..Len(ls) : BareCaret(ls[b])) /\ verdict = IDLE )
         => Firing(ls) = {}

\* The simulator's layout: spinner, divider, bare caret, divider, mode line.
C2_Witness ==
  /\ output = JoinLines(<<L_SPIN_PROC, L_SEP, L_CARET, L_SEP, L_MODE>>)
  /\ verdict = Verdict("processing", <<"T","h","i","n","k","i","n","g">>)

(***************************************************************************)
(* C3 as stated.  On every screen in which a caret line with trailing text *)
(* lies strictly below a divider line and every line containing "?" lies   *)
(* strictly above that divider, the verdict is not interactive.            *)
(***************************************************************************)
DividerShields(ls, s, c) ==
  /\ Divider(ls[s])
  /\ s < c
  /\ CaretWithText(ls[c])
  /\ \A q \in 1..Len(ls) : HasChar(ls[q], QUESTION_MARK) => q < s

C3_AsStated ==
  Classified =>
    LET ls == Lines IN
    \A s, c \in 1..Len(ls) : DividerShields(ls, s, c) => verdict.state # "interactive"

(***************************************************************************)
(* C3, amended.  On every such screen no line at or below the divider      *)
(* yields interactive: the verdict is interactive only when the lowest     *)
(* line that fires lies strictly above the divider (a literal prompt       *)
(* phrase there, or another caret line confirmed by a "?" above it).       *)
(***************************************************************************)
C3_DividerBoundsSearch ==
  Classified =>
    LET ls == Lines IN
    \A s, c \in 1..Len(ls) :
      (DividerShields(ls, s, c) /\ verdict.state = "interactive")
      => /\ Firing(ls) # {}
         /\ Lowest(Firing(ls)) < s
         /\ \/ HasPhrase(ls[Lowest(Firing(ls))])
            \/ CaretWithText(ls[Lowest(Firing(ls))])

\* "?" above the divider, the caret below it: the caret gives no verdict.
C3_Witness ==
  /\ output = JoinLines(<<L_QUESTION, L_SEP, L_TEXT, L_CARET_TEXT>>)
  /\ verdict = IDLE

(***************************************************************************)
(* C6 as stated.  A caret line with trailing text that is neither          *)
(* divider-flanked nor confirmed by a "?" line above it never determines   *)
(* the verdict: with a spinner line above it the verdict is that           *)
(* spinner's, and with nothing else matching it is (idle, "").             *)
(***************************************************************************)
Inconclusive(ls, c) ==
  /\ CaretWithText(ls[c])
  /\ ~Flanked(ls, c)
  /\ ~\E d \in 1..19 : QuestionAt(ls, c, d)

\* What the claim says of the inconclusive caret line c.
PassedOver(ls, c) ==
  /\ (\A j \in 1..Len(ls) : j # c => ~Fires(ls, j)) => verdict = IDLE
  /\ \A s \in 1..(c - 1) :
       ( /\ SpinnerWithText(ls[s]) /\ ~HasCaret(ls[s]) /\ ~HasPhrase(ls[s])
         /\ \A j \in (s + 1)..Len(ls) : j # c => ~Fires(ls, j) )
       => verdict = SpinnerVerdict(ls[s])

C4_AsStated ==
  Classified =>
    LET ls == Lines IN
    \A c \in 1..Len(ls) :
      (CaretWithText(ls[c]) /\ Flanked(ls, c) /\ NoFireBelow(ls, c))
      => verdict = Verdict("inputting", AfterCaret(ls[c]))

(***************************************************************************)
(* C4, amended.  On every screen in which a caret line has non-empty       *)
(* trailing text and holds no literal prompt phrase, its nearest non-blank *)
(* neighbours above and below are both divider lines at most 3 lines away, *)
(* and no line below the caret line fires a rule, the verdict is           *)
(* (inputting, trimmed text after the caret), whatever else the trailing   *)
(* text is and whatever the lines above the upper divider contain.         *)
(***************************************************************************)
C4_InputtingPrecedence ==
  Classified =>
    LET ls == Lines IN
    \A c \in 1..Len(ls) :
      ( /\ CaretWithText(ls[c])
        /\ ~HasPhrase(ls[c])
        /\ FlankedWithin(ls, c, 3)
        /\ NoFireBelow(ls, c) )
      => verdict = Verdict("inputting", AfterCaret(ls[c]))

\* A "?" above the upper divider, the dividers 3 lines from the caret line.
C4_Witness ==
  /\ output = JoinLines(<<L_QUESTION, L_SEP_MIX>> \o Blanks(2) \o <<L_CARET_Q>>
                          \o Blanks(2) \o <<L_SEP, L_MODE>>)
  /\ verdict = Verdict("inputting", <<"o","k","?">>)

(***************************************************************************)
(* C5.  For a caret line with non-empty trailing text that is not          *)
(* divider-flanked, if a line containing "?" lies d lines above it with    *)
(* 1 <= d <= 20 (blank lines counted) and no divider line lies between     *)
(* them, the verdict is (interactive, text after the caret) when no lower  *)
(* line fires, for every d up to and including 20.                         *)
(***************************************************************************)
C5_QuestionWithin20 ==
  Classified =>
    LET ls == Lines IN
    \A c \in 1..Len(ls) :
      ( /\ CaretWithText(ls[c])
        /\ ~Flanked(ls, c)
        /\ \E d \in 1..20 : QuestionAt(ls, c, d)
        /\ NoFireBelow(ls, c) )
      => verdict = Verdict("interactive", AfterCaret(ls[c]))

(***************************************************************************)
(* C7.  For every word w of the completed-word set a screen of a spinner   *)
(* glyph, a space and w is (completed, w); for every word w of the         *)
(* processing-word set it is (processing, w); the completed-word set has 8 *)
(* entries and is disjoint from the processing-word set.                   *)
(***************************************************************************)
C7_VocabularyPartition ==
  /\ Cardinality(COMPLETED_WORDS) = 8
  /\ COMPLETED_WORDS \cap PROCESSING_WORDS = {}
  /\ Classified =>
       \A g \in SPINNER_CHARS :
         /\ \A w \in COMPLETED_WORDS :
              output = <<g, " ">> \o w => verdict = Verdict("completed", w)
         /\ \A w \in PROCESSING_WORDS :
              output = <<g, " ">> \o w => verdict = Verdict("processing", w)

\* The completed word with a non-ASCII letter, classified.
C7_Witness ==
  /\ output = <<"U2722", " ", "S","a","u","t","U00E9","e","d">>
  /\ verdict = Verdict("completed", <<"S","a","u","t","U00E9","e","d">>)

(***************************************************************************)
(* C8.  Every input has exactly one of the five states as its verdict;     *)
(* interactive, inputting, processing and completed carry a non-empty      *)
(* detail, idle carries the empty detail.                                  *)
(***************************************************************************)
C8_VerdictInvariant ==
  Classified =>
    /\ verdict.state \in {"idle", "inputting", "interactive", "processing", "completed"}
    /\ verdict.state = "idle" => verdict.detail = <<>>
    /\ verdict.state \in {"interactive", "inputting", "processing", "completed"}
         => verdict.detail # <<>>

\* A spinner with no text at the bottom is passed over; the one above decides.
C8_Witness ==
  /\ output = JoinLines(<<L_SPIN_UNKNOWN, L_SPIN_EMPTY>>)
  /\ verdict.state = "processing"
  /\ verdict.detail = <<"F","o","o"," ","b","a","r","U2026">>

(***************************************************************************)
(* C9.  A screen that is empty or whitespace-only, or that has no spinner  *)
(* glyph, no literal prompt phrase and no caret line whose divider-flanked *)
(* or "?"-above condition is satisfied, is exactly (idle, "").             *)
(***************************************************************************)
NothingToMatch(ls) ==
  /\ \A i \in 1..Len(ls) : \A k \in 1..Len(ls[i]) : ls[i][k] \notin SPINNER_CHARS
  /\ \A i \in 1..Len(ls) : ~HasPhrase(ls[i])
  /\ \A i \in 1..Len(ls) :
       CaretWithText(ls[i]) =>
         ~(FlankedWithin(ls, i, 3) \/ \E d \in 1..19 : QuestionAt(ls, i, d))

C9_IdleDefault ==
  Classified =>
    LET ls == Lines IN
    ( \/ output = <<>>
      \/ \A i \in 1..Len(ls) : Blank(ls[i])
      \/ NothingToMatch(ls) )
    => verdict = IDLE

\* A caret with text, no "?" above and no dividers, then some output.
C9_Witness ==
  /\ output = JoinLines(<<L_WS, L_CARET_TEXT, L_TEXT>>)
  /\ verdict = IDLE

(***************************************************************************)
(* C10.  For every non-blank line that contains a literal prompt phrase    *)
(* as a case-sensitive substring, if no lower line fires, the verdict is   *)
(* (interactive, phrase) with phrase the first phrase in list order that   *)
(* the line contains, also when the line holds the caret or starts with a  *)
(* spinner glyph; a differently-cased variant of a phrase does not match.  *)
(***************************************************************************)
\* The first phrase, in list order, that the line l contains.
ListedFirst(l) ==
  INTERACTIVE_PROMPTS[CHOOSE p \in 1..Len(INTERACTIVE_PROMPTS) :
                        /\ Contains(l, INTERACTIVE_PROMPTS[p])
                        /\ \A q \in 1..(p - 1) : ~Contains(l, INTERACTIVE_PROMPTS[q])]

C10_LiteralPromptRule ==
  Classified =>
    LET ls == Lines IN
    /\ \A i \in 1..Len(ls) :
         (~Blank(ls[i]) /\ HasPhrase(ls[i]) /\ NoFireBelow(ls, i))
         => verdict = Verdict("interactive", ListedFirst(ls[i]))
    /\ (\A i \in 1..Len(ls) : ~HasPhrase(ls[i]))
         => ~( /\ verdict.state = "interactive"
               /\ \E p \in 1..Len(INTERACTIVE_PROMPTS) : verdict.detail = INTERACTIVE_PROMPTS[p] )

\* A caret line holding the fifth phrase and then the first: the first decides.
C10_Witness ==
  /\ output = JoinLines(<< <<"U276F"," ">> \o INTERACTIVE_PROMPTS[5] \o <<" ">>
                             \o INTERACTIVE_PROMPTS[1],
                           L_CARET >>)
  /\ verdict = Verdict("interactive", INTERACTIVE_PROMPTS[1])

(***************************************************************************)
(* C11.  detect_claude_mode returns the mode of the topmost line that      *)
(* matches an indicator: plan for a line with the paused glyph and "plan"  *)
(* in any case, accept-edits for a line with the doubled running glyph and *)
(* "accept" in any case, plan for a line with both; default when no line   *)
(* matches or the screen is empty.                                         *)
(***************************************************************************)

\* l holds the word w in some mix of upper and lower case.
HoldsAnyCase(l, w) ==
  \E k \in 1..(Len(l) - Len(w) + 1) :
    \A j \in 1..Len(w) : l[k + j - 1] = w[j] \/ LowerChar(l[k + j - 1]) = w[j]

PlanLine(l) == (\E k \in 1..Len(l) : l[k] = PAUSED) /\ HoldsAnyCase(l, <<"p","l","a","n">>)

AcceptLine(l) ==
  /\ \E k \in 1..(Len(l) - 1) : l[k] = RUNNING /\ l[k + 1] = RUNNING
  /\ HoldsAnyCase(l, <<"a","c","c","e","p","t">>)

C11_TopmostModeLineWins ==
  "mode" \in done =>
    LET ls == IF output = <<>> THEN <<>> ELSE Lines
        M  == {i \in 1..Len(ls) : PlanLine(ls[i]) \/ AcceptLine(ls[i])}
    IN IF M = {} THEN mode = "default"
       ELSE LET t == CHOOSE i \in M : \A j \in M : i <= j
            IN mode = IF PlanLine(ls[t]) THEN "plan" ELSE "accept-edits"

\* An accept-edits line above a plan line, and a line that matches both.
C11_Witness ==
  /\ "mode" \in done
  /\ \/ output = JoinLines(<<L_TEXT, L_ACCEPT_CAP, L_PLAN>>) /\ mode = "accept-edits"
     \/ output = JoinLines(<<L_BOTH, L_MODE>>) /\ mode = "plan"

(***************************************************************************)
(* C12.  detect_interactive returns the type with the smallest priority    *)
(* number among the five patterns that match the joined text               *)
(* (permission_confirm 1, highlighted_option 2, plan_approval 3,           *)
(* user_question 4, selection_menu 5), and None exactly when none of the   *)
(* five matches.                                                           *)
(***************************************************************************)

\* The types by priority number.
TYPE_OF_PRIORITY ==
  <<"permission_confirm", "highlighted_option", "plan_approval", "user_question",
    "selection_menu">>

\* The pattern of priority p matches the text.
PatternMatches(text, p) ==
  CASE p = 1 -> \E i \in 1..Len(text) : PermissionAt(text, i) > 0
    [] p = 2 -> \E i \in 1..Len(text) : HighlightedAt(text, i) > 0
    [] p = 3 -> \E i \in 1..Len(text) : PlanAt(text, i) > 0
    [] p = 4 -> \E i \in 1..Len(text) : UserQuestionAt(text, i) > 0
    [] p = 5 -> LET ls == SplitLines(text)
                IN Cardinality({k \in 1..Len(ls) : IsMenuLine(ls[k])}) >= 2

Matching(text) == {p \in 1..Len(TYPE_OF_PRIORITY) : PatternMatches(text, p)}

C12_HighestPriorityWins ==
  "interactive" \in done =>
    LET ps == Matching(output)
    IN IF ps = {} THEN match = NULL
       ELSE match.interaction_type = TYPE_OF_PRIORITY[CHOOSE p \in ps : \A q \in ps : p <= q]

\* A permission request above a highlighted option and a numbered menu.
C12_Witness ==
  /\ "interactive" \in done
  /\ output = JoinLines(<<D_CARET_YES, D_ALLOW, D_PROCEED>>)
  /\ Matching(output) = {1, 2, 3}
  /\ match.interaction_type = "permission_confirm"

(***************************************************************************)
(* C13.  Whenever detect_interactive returns a match, of any of the five   *)
(* types, its choices list has at least one element and every choice is a  *)
(* non-empty, trimmed string.                                              *)
(***************************************************************************)
C13_ChoicesNonEmpty ==
  ("interactive" \in done /\ match # NULL) =>
    /\ Len(match.choices) >= 1
    /\ \A k \in 1..Len(match.choices) :
         /\ match.choices[k] # <<>>
         /\ match.choices[k][1] \notin REGEX_SPACE
         /\ match.choices[k][Len(match.choices[k])] \notin REGEX_SPACE

(***************************************************************************)
(* C14.  detect_idle_prompt(text) is true exactly when some line of the    *)
(* text holds the caret followed only by whitespace up to the end of that  *)
(* line; it is false when the text has no caret or every caret is followed *)
(* by non-whitespace text on its own line.                                 *)
(***************************************************************************)

\* The caret at position k of l, and nothing but whitespace after it.
CaretEndsLine(l, k) == l[k] = CARET /\ \A j \in (k + 1)..Len(l) : l[j] \in WHITESPACE

C14_IdlePromptIffBareCaret ==
  "idle_prompt" \in done =>
    LET ls == Lines
    IN idle_prompt <=> \E i \in 1..Len(ls) : \E k \in 1..Len(ls[i]) : CaretEndsLine(ls[i], k)

\* A caret with trailing whitespace between two lines of text.
C14_Witness ==
  /\ "idle_prompt" \in done
  /\ output = JoinLines(<<I_TEXT, L_CARET_WS, L_TEXT>>)
  /\ idle_prompt

(***************************************************************************)
(* C15.  For a match of type permission_confirm or user_question, the      *)
(* choices are Yes and No, Yes first, each listed exactly when the text    *)
(* holds it, and the default Yes, No when the text holds neither.  As      *)
(* stated, "holds" is "contains the substring"; the code looks for the     *)
(* whole word in any letter case.                                          *)
(***************************************************************************)

\* The choices of cs that are in the set held, in the order of cs.
Listed(cs, held) == Concat([k \in 1..Len(cs) |-> IF cs[k] \in held THEN <<cs[k]>> ELSE <<>>])

YesNoQuestion ==
  /\ "interactive" \in done
  /\ match.interaction_type \in {"permission_confirm", "user_question"}

C15_AsStated ==
  YesNoQuestion =>
    LET held == {w \in {YES, NO} : Contains(output, w)}
    IN match.choices = IF Listed(<<YES, NO>>, held) = <<>> THEN <<YES, NO>>
                       ELSE Listed(<<YES, NO>>, held)

\* The word w, in any letter case, with no letter, digit or underscore
\* next to it.
ContainsWord(text, w) ==
  \E i \in 1..(Len(text) - Len(w) + 1) :
    /\ Lower(SubSeq(text, i, i + Len(w) - 1)) = Lower(w)
    /\ i > 1 => text[i - 1] \notin WORD_CHARS
    /\ i + Len(w) <= Len(text) => text[i + Len(w)] \notin WORD_CHARS

C15_WholeWordChoices ==
  YesNoQuestion =>
    LET held == {w \in {YES, NO} : ContainsWord(output, w)}
    IN match.choices = IF Listed(<<YES, NO>>, held) = <<>> THEN <<YES, NO>>
                       ELSE Listed(<<YES, NO>>, held)

\* "Yesterday" holds the substring Yes but not the word: only No is listed.
C15_Witness ==
  /\ "interactive" \in done
  /\ output = JoinLines(<<D_ALLOW, A_YESTERDAY, A_NO>>)
  /\ match = InteractionMatch("permission_confirm", <<NO>>, D_ALLOW)

TextStart(l) ==
  CHOOSE j \in 1..(Len(l) + 1) :
    /\ \A k \in 1..(j - 1) : l[k] \in WHITESPACE
    /\ j <= Len(l) => l[j] \notin WHITESPACE

\* The number of digits l has from position j on.
DigitsFrom(l, j) ==
  CHOOSE n \in 0..(Len(l) - j + 1) :
    /\ \A k \in j..(j + n - 1) : l[k] \in DIGITS
    /\ j + n <= Len(l) => l[j + n] \notin DIGITS

\* The rows as stated: the entry of line l in a one-element tuple, <<>>
\* when l is no row.
StatedCaretRow(l) ==
  IF HasCaret(l)
  THEN IF Strip(AfterFirst(l, CARET)) # <<>> THEN <<Strip(AfterFirst(l, CARET))>> ELSE <<>>
  ELSE IF Len(l) >= 3 /\ l[1] = " " /\ l[2] = " " /\ Strip(l) # <<>> THEN <<Strip(l)>>
  ELSE <<>>

StatedListRow(l) ==
  LET j == TextStart(l)
      n == DigitsFrom(l, j)
  IN IF j > Len(l) THEN <<>>
     ELSE IF n >= 1 /\ j + n <= Len(l) /\ l[j + n] \in {".", ")"}
     THEN <<Strip(SubSeq(l, j + n + 1, Len(l)))>>
     ELSE IF l[j] \in {"-", "*", "+"} THEN <<Strip(SubSeq(l, j + 1, Len(l)))>>
     ELSE <<>>

CaretPlaces(l) ==
  {k \in 1..(Len(l) - 2) : l[k] = CARET /\ l[k + 1] \in WHITESPACE}

\* The rows as the code takes them.
CaretMenuRow(l) ==
  IF HasCaret(l)
  THEN IF CaretPlaces(l) = {} THEN <<>>
       ELSE LET k == CHOOSE a \in CaretPlaces(l) : \A b \in CaretPlaces(l) : a <= b
            IN <<Strip(SubSeq(l, k + 2, Len(l)))>>
  ELSE IF TextStart(l) >= 3 /\ TextStart(l) <= Len(l) /\ l[TextStart(l)] \in WORD_CHARS
  THEN <<Strip(l)>>
  ELSE <<>>

ListMenuRow(l) ==
  LET j == TextStart(l)
      n == DigitsFrom(l, j)
  IN IF j > Len(l) THEN <<>>
     ELSE IF /\ n >= 1
             /\ j + n + 2 <= Len(l)
             /\ l[j + n] \in {".", ")"}
             /\ l[j + n + 1] \in WHITESPACE
     THEN <<Strip(SubSeq(l, j + n + 2, Len(l)))>>
     ELSE IF l[j] \in {"-", "*", "+"} /\ j + 2 <= Len(l) /\ l[j + 1] \in WHITESPACE
     THEN <<Strip(SubSeq(l, j + 2, Len(l)))>>
     ELSE <<>>

Stored(s) == <<<<>>>> \o rendered[s]

\* The number of most recent polls of s, all of which rendered what was
\* stored before them.
RecentUnchanged(s) ==
  LET h == Stored(s)
      n == Len(rendered[s])
  IN CHOOSE c \in 0..n :
       /\ \A k \in (n - c + 1)..n : h[k + 1] = h[k]
       /\ c < n => h[n - c + 1] # h[n - c]

C18_StableCountCountsUnchanged ==
  \A s \in DOMAIN session_states :
    /\ session_states[s].stable_count = RecentUnchanged(s)
    /\ session_states[s].stable_count >= 0
    /\ session_states[s].last_output = Stored(s)[Len(Stored(s))]

\* A change, then two polls without change; the last raw output differs
\* from the one before and renders to the same text.
C18_Witness ==
  /\ "s1" \in DOMAIN session_states
  /\ rendered["s1"] = <<<<"b">>, <<"a">>, <<"a">>>>
  /\ raw = <<"a", " ">>
  /\ session_states["s1"].stable_count = 1

(***************************************************************************)
(* C19.  A failed _poll_session raises and leaves the state alone: for an  *)
(* unknown session it raises "Session not found" and no session, cache or  *)
(* renderer entry is created; when the stream request fails it raises      *)
(* "Failed to get stream output" and stable_count, last_output and the     *)
(* live-output cache are as before the call.                               *)
(***************************************************************************)
C19_FailedPollKeepsState ==
  [][\A session_id \in SESSION_IDS, ok \in BOOLEAN, raw_output \in RawOutputs :
       poll_session(session_id, ok, raw_output) =>
         /\ session_id \notin DOMAIN session_states =>
              /\ raised' = NOT_FOUND
              /\ UNCHANGED <<session_states, live_outputs, pyte_renderers>>
         /\ (session_id \in DOMAIN session_states /\ ~ok) =>
              /\ raised' = STREAM_FAILED
              /\ UNCHANGED <<session_states, live_outputs>>]_vars

\* The stream request failed for a session that had been polled twice.
C19_Witness ==
  /\ raised = STREAM_FAILED
  /\ "s1" \in DOMAIN session_states
  /\ session_states["s1"].stable_count = 1
  /\ session_states["s1"].last_output = <<"a">>
  /\ live_outputs = Put(EMPTY_DICT, "s1", <<"a">>)

(***************************************************************************)
(* C20.  For every input text, the result of _clean_text, and so of        *)
(* render, has no line that ends in a space or a tab and holds none of the *)
(* invisible characters U+200B, U+200C, U+200D, U+200E, U+200F, U+FEFF.    *)
(***************************************************************************)
C20_CleanedText ==
  "render" \in done =>
    LET ls == Lines
    IN \A i \in 1..Len(ls) :
         /\ ls[i] # <<>> => ls[i][Len(ls[i])] \notin {" ", "\t"}
         /\ \A k \in 1..Len(ls[i]) : ls[i][k] \notin INVISIBLE_CHARS

(***************************************************************************)
(* C21.  For every SessionState whose terminal_state is not interactive,   *)
(* the response of to_status_response has detail.interaction_type null and *)
(* detail.choices null.                                                    *)
(***************************************************************************)
C21_NonInteractiveNull ==
  (response # NO_RESPONSE /\ response.terminal_state # "interactive") =>
    /\ response.detail.interaction_type = None
    /\ response.detail.choices = None

(***************************************************************************)
(* C22.  classify_state, classify_mode, detect_interactive and             *)
(* detect_idle_prompt are functions of their text only: two calls of one   *)
(* of them with the same text return equal results, whatever calls were    *)
(* made in between or at the same time, and no call changes the            *)
(* vocabulary sets.                                                        *)
(***************************************************************************)
SameTextSameResult ==
  \A i, j \in 1..Len(memo) :
    (memo[i].function = memo[j].function /\ memo[i].text = memo[j].text) =>
      memo[i].result = memo[j].result

FirstMark(l) ==
  LET S == {k \in 1..Len(l) : l[k] \notin WHITESPACE} IN
  IF S = {} THEN 0 ELSE CHOOSE k \in S : \A j \in S : k <= j

\* Optional whitespace, a spinner glyph, whitespace, and then text or none.
SpinnerShape(l) ==
  LET k == FirstMark(l) IN
  k # 0 /\ k < Len(l) /\ l[k] \in SPINNER_CHARS /\ l[k + 1] \in WHITESPACE

\* The trimmed text after the glyph of a line of that shape.
SpinnerText(l) == Strip(SubSeq(l, FirstMark(l) + 1, Len(l)))

\* The first whitespace-delimited word of a trimmed text.
LeadingWord(text) ==
  LET S == {k \in 1..Len(text) : text[k] \in WHITESPACE} IN
  IF S = {} THEN text ELSE SubSeq(text, 1, (CHOOSE k \in S : \A j \in S : k <= j) - 1)

StatedSpinnerVerdict(l) ==
  IF LeadingWord(SpinnerText(l)) \in COMPLETED_WORDS
  THEN Verdict("completed", LeadingWord(SpinnerText(l)))
  ELSE Verdict("processing", SpinnerText(l))

\* The lowest line of ls that gives a verdict; 0 if none.
FiringLine(ls) == IF Firing(ls) = {} THEN 0 ELSE Lowest(Firing(ls))

\* The bare spinner lines are passed over: the verdict is that of the scan
\* from the line above the lowest of them that has no firing line below it.
BareSpinnerSkipped(ls) ==
  \A i \in 1..Len(ls) :
    (SpinnerShape(ls[i]) /\ SpinnerText(ls[i]) = <<>> /\ NoFireBelow(ls, i)) =>
      /\ FiringLine(ls) # i
      /\ verdict = ScanFrom(ls, i - 1)

C23_AsStated ==
  Classified =>
    LET ls == Lines
        i  == FiringLine(ls)
    IN (i # 0 /\ SpinnerShape(ls[i]) /\ SpinnerText(ls[i]) # <<>>) =>
          verdict = StatedSpinnerVerdict(ls[i])

C23_SpinnerLineVerdict ==
  Classified =>
    LET ls == Lines
        i  == FiringLine(ls)
    IN /\ (i # 0 /\ SpinnerShape(ls[i]) /\ SpinnerText(ls[i]) # <<>>
             /\ ~HasPhrase(ls[i]) /\ ~HasCaret(ls[i])) =>
            verdict = StatedSpinnerVerdict(ls[i])
       /\ BareSpinnerSkipped(ls)

\* A completed word with a duration fires above a bare spinner line: the
\* detail is the word alone.
C23_Witness ==
  /\ Classified
  /\ output = JoinLines(<<S_PROC, S_DONE_TIME, S_BARE>>)
  /\ verdict = Verdict("completed", <<"B","a","k","e","d">>)

(***************************************************************************)
(* C24.  The inputting check looks at most 3 lines up and 3 lines down     *)
(* from the caret line.  A caret line with text whose nearest non-blank    *)
(* lines above and below are both dividers, each at most 3 lines away, is  *)
(* classified inputting, blank lines in between allowed; when on either    *)
(* side the nearest non-blank line is no divider, or lies more than 3      *)
(* lines away, or the edge of the screen comes first, the caret line is    *)
(* not classified inputting.  As stated this covers every caret line with  *)
(* text; the code classifies a caret line that holds a literal prompt      *)
(* phrase as interactive before it looks around.                           *)
(***************************************************************************)

\* The only line of ls that is a caret line with text is line c.
OnlyCaretWithText(ls, c) == \A j \in 1..Len(ls) : CaretWithText(ls[j]) => j = c

\* The caret line c is not classified inputting: no inputting verdict comes
\* from it.
NotInputting(ls, c) ==
  /\ FiringLine(ls) = c => verdict.state # "inputting"
  /\ OnlyCaretWithText(ls, c) => verdict.state # "inputting"

C24_AsStated ==
  Classified =>
    LET ls == Lines IN
    \A c \in 1..Len(ls) :
      (CaretWithText(ls[c]) /\ NoFireBelow(ls, c)) =>
        IF FlankedWithin(ls, c, 3)
        THEN verdict = Verdict("inputting", AfterCaret(ls[c]))
        ELSE NotInputting(ls, c)

C24_LookAroundBound ==
  Classified =>
    LET ls == Lines IN
    \A c \in 1..Len(ls) :
      (CaretWithText(ls[c]) /\ ~HasPhrase(ls[c]) /\ NoFireBelow(ls, c)) =>
        IF FlankedWithin(ls, c, 3)
        THEN verdict = Verdict("inputting", AfterCaret(ls[c]))
        ELSE NotInputting(ls, c)

\* The upper divider lies 4 lines above the caret line, the lower one next
\* to it: not inputting.
C24_Witness ==
  /\ output = JoinLines(<<L_SEP>> \o Blanks(3) \o <<L_CARET_TEXT, L_SEP>>)
  /\ verdict = IDLE

(***************************************************************************)
(* C25.  The first successful _poll_session of a freshly created session   *)
(* (stable_count 0, last_output "") leaves stable_count at 0, whatever     *)
(* the renderer makes of the output, an empty rendered output included.    *)
(***************************************************************************)
C25_FirstPollKeepsZero ==
  \A s \in DOMAIN session_states :
    Len(rendered[s]) = 1 => session_states[s].stable_count = 0

(***************************************************************************)
(* C26.  The question search of the caret rule looks only at the lines     *)
(* strictly above the caret line.  A caret line whose own text after the   *)
(* caret contains "?", that is not divider-flanked and has no "?" on any   *)
(* line above it before a divider, is inconclusive: it yields no           *)
(* interactive verdict itself and the scan goes on above it.  As stated    *)
(* this covers every such caret line; the code classifies a caret line     *)
(* whose text holds a literal prompt phrase as interactive.                *)
(***************************************************************************)

\* The text after the caret of line c holds "?", the line is not flanked by
\* dividers within 3 lines, and no line with "?" lies above it before a
\* divider.
OwnQuestionOnly(ls, c) ==
  /\ CaretWithText(ls[c])
  /\ HasChar(AfterCaret(ls[c]), QUESTION_MARK)
  /\ ~FlankedWithin(ls, c, 3)
  /\ \A d \in 1..(c - 1) : ~QuestionAt(ls, c, d)

\* Line c gives no verdict: the verdict is that of the scan from the line
\* above it, and idle when no other line fires.
PassedOverAlone(ls, c) ==
  /\ verdict = ScanFrom(ls, c - 1)
  /\ (\A j \in 1..(c - 1) : ~Fires(ls, j)) => verdict = IDLE

C26_AsStated ==
  Classified =>
    LET ls == Lines IN
    \A c \in 1..Len(ls) :
      (OwnQuestionOnly(ls, c) /\ NoFireBelow(ls, c)) => PassedOverAlone(ls, c)

C26_OwnQuestionInconclusive ==
  Classified =>
    LET ls == Lines IN
    \A c \in 1..Len(ls) :
      (OwnQuestionOnly(ls, c) /\ ~HasPhrase(ls[c]) /\ NoFireBelow(ls, c)) =>
        PassedOverAlone(ls, c)

\* A typed question under a spinner line: the spinner decides.
C26_Witness ==
  /\ output = JoinLines(<<L_SPIN_PROC, L_TEXT, L_CARET_Q>>)
  /\ verdict = Verdict("processing", <<"T","h","i","n","k","i","n","g">>)

(***************************************************************************)
(* C27.  For a caret line with text, the inputting condition (the nearest  *)
(* non-blank lines above and below, within 3 lines, are both dividers) and *)
(* the menu condition (a line with "?" found above before any divider)     *)
(* never hold together, so the verdict of the caret line does not depend   *)
(* on which of the two is checked first.                                   *)
(***************************************************************************)

\* Rule B with the search for "?" made before the look-around.
CaretRuleQuestionFirst(lines, i, stripped) ==
  LET after == Strip(AfterFirst(stripped, CARET)) IN
  IF after # <<>> THEN
    IF has_question(lines, i) THEN Verdict("interactive", after)
    ELSE IF Enclosed(lines, i) THEN Verdict("inputting", after)
    ELSE CONTINUE
  ELSE CONTINUE

C27_ChecksExclusive ==
  Classified =>
    LET ls == Lines IN
    \A c \in 1..Len(ls) :
      CaretWithText(ls[c]) =>
        /\ ~(Enclosed(ls, c) /\ has_question(ls, c))
        /\ ~(FlankedWithin(ls, c, 3) /\ \E d \in 1..Len(ls) : QuestionAt(ls, c, d))
        /\ CaretRule(ls, c, Strip(ls[c])) = CaretRuleQuestionFirst(ls, c, Strip(ls[c]))

\* A line with "?" above the upper divider of an enclosed caret line, and a
\* blank line between the caret line and each divider.
C27_Witness ==
  /\ output = JoinLines(<<L_QUESTION, L_SEP>> \o Blanks(1) \o <<L_CARET_TEXT>>
                          \o Blanks(1) \o <<L_SEP>>)
  /\ verdict = Verdict("inputting", <<"l","s">>)

(***************************************************************************)
(* C28.  On a text in which every caret is bare (only whitespace follows   *)
(* it on its own line, so that detect_idle_prompt is true),                *)
(* detect_interactive never returns highlighted_option, whatever the       *)
(* following lines hold.                                                   *)
(***************************************************************************)

\* The text has a caret, and after every caret only whitespace follows on
\* its line.
EveryCaretBare(ls) ==
  /\ \E i \in 1..Len(ls) : HasCaret(ls[i])
  /\ \A i \in 1..Len(ls) : \A k \in 1..Len(ls[i]) :
       ls[i][k] = CARET => \A j \in (k + 1)..Len(ls[i]) : ls[i][j] \in WHITESPACE

C28_BareCaretNotHighlighted ==
  ("interactive" \in done /\ EveryCaretBare(Lines)) =>
    /\ detect_idle_prompt(output)
    /\ match.interaction_type # "highlighted_option"

(***************************************************************************)
(* C29.  Polls of one session that are in flight at once are serialised at *)
(* the update: when two _poll_session calls for a session are both         *)
(* suspended at the stream request, then after both have completed         *)
(* stable_count and last_output are what the two polls give when run one   *)
(* after the other in the order in which their requests completed; the     *)
(* comparison and the update of one poll never interleave with those of    *)
(* the other.                                                              *)
(***************************************************************************)

\* The stable_count and last_output after polls that render outs, run one
\* after the other on a session created with defaults.
RECURSIVE OneAfterTheOther(_)
OneAfterTheOther(outs) ==
  IF outs = <<>> THEN [stable_count |-> 0, last_output |-> <<>>]
  ELSE LET before == OneAfterTheOther(SubSeq(outs, 1, Len(outs) - 1))
           out    == outs[Len(outs)]
       IN [stable_count |-> IF out = before.last_output THEN before.stable_count + 1 ELSE 0,
           last_output  |-> out]

C29_PollsSerialised ==
  \A s \in DOMAIN session_states :
    /\ session_states[s].stable_count = OneAfterTheOther(rendered[s]).stable_count
    /\ session_states[s].last_output = OneAfterTheOther(rendered[s]).last_output

\* Two polls of s1 were suspended at once; the first to complete changed
\* the output and the second rendered the same text from another raw output.
C29_Witness ==
  /\ "s1" \in overlapped
  /\ in_flight = {}
  /\ rendered["s1"] = <<<<"a">>, <<"a">>>>
  /\ raw = <<"a", " ">>
  /\ session_states["s1"].stable_count = 1

(***************************************************************************)
(* C30.  _poll_session changes only stable_count and last_output of the    *)
(* polled session, that session's entry of the live-output cache and, on   *)
(* its first poll, its renderer entry.  The other fields of the polled     *)
(* session (terminal_state, task_status, interaction_type, choices,        *)
(* started_at, completed_at, auto_response_count, description) and every   *)
(* field and cache entry of every other session are unchanged; so after    *)
(* any sequence of polls a session created with defaults still has         *)
(* terminal_state running and task_status pending.                         *)
(***************************************************************************)

\* The fields of a SessionState that a poll leaves alone.
UnpolledFields ==
  {"terminal_state", "task_status", "interaction_type", "choices", "started_at",
   "completed_at", "auto_response_count", "description"}

\* The step changes nothing but what a poll of session_id may change.
PollFrame(session_id) ==
  /\ DOMAIN session_states' = DOMAIN session_states
  /\ \A s \in DOMAIN session_states :
       /\ s # session_id => session_states'[s] = session_states[s]
       /\ \A f \in UnpolledFields : session_states'[s][f] = session_states[s][f]
  /\ DOMAIN live_outputs' \subseteq DOMAIN live_outputs \cup {session_id}
  /\ \A s \in DOMAIN live_outputs \ {session_id} :
       s \in DOMAIN live_outputs' /\ live_outputs'[s] = live_outputs[s]
  /\ pyte_renderers \subseteq pyte_renderers'
  /\ pyte_renderers' \subseteq pyte_renderers \cup {session_id}

C30_PollFrame ==
  /\ [](\A s \in DOMAIN session_states :
          /\ session_states[s].terminal_state = "running"
          /\ session_states[s].task_status = "pending")
  /\ [][\A session_id \in SESSION_IDS, ok \in BOOLEAN, raw_output \in RawOutputs :
          poll_session(session_id, ok, raw_output) => PollFrame(session_id)]_vars

\* Both sessions were polled, s1 last and with a change of its output; s2
\* keeps its count, its cache entry and its defaults.
C30_Witness ==
  /\ DOMAIN live_outputs = {"s1", "s2"}
  /\ rendered["s1"] = <<<<"a">>, <<"b">>>>
  /\ rendered["s2"] = <<<<"a">>, <<"a">>>>
  /\ raw = <<ESC, "[", "1", "m", "b">>
  /\ session_states["s2"].stable_count = 1
  /\ live_outputs["s2"] = <<"a">>
  /\ session_states["s1"].terminal_state = "running"

====
